---------------------------- MODULE Spec2Model ----------------------------
(***************************************************************************)
(* Model of the SOCKS5 UDP relay of wireproxy-awg (src/socks5_udp.go):     *)
(* the connection pool, the receive loop, the creation tasks, the reader   *)
(* tasks, the janitor and the SOCKS5 request parser.                       *)
(*                                                                         *)
(* Time is counted in seconds. The clock of the relay and of the pool moves *)
(* in steps of InstantSeconds seconds, that of the DNS cache in seconds.    *)
(***************************************************************************)
EXTENDS Integers, Sequences, FiniteSets, TLC

\* ------------------------------------------------------------------ bounds
\* client endpoints (association keys) of the relay
NumClients == 2
\* associations that may be created in one run of the relay
MaxConns == 2
\* datagrams the clients send in one run of the relay
MaxDatagrams == 2
\* steps of the clock in one run of the relay
MaxNow == 1
\* seconds in a step of the clock: more than the maximal age of the janitor, so
\* that an association unused for one step is old
InstantSeconds == 90
\* the same for the runs in which progress is checked
LiveClients == 1
LiveConns == 2
LiveDatagrams == 2
\* keys handed to the pool when it is driven on its own
PoolKeys == 7
\* largest maxSize handed to NewUDPConnectionPool when driven on its own
PoolMaxSize == 6
\* steps of the clock when the pool is driven on its own
PoolMaxNow == 2
\* reads on a closed connection that are counted
LateReadsCap == 2
\* tasks that call Resolve, and the last second of the clock, when the DNS cache
\* is driven on its own
DnsResolvers == 2
MaxDnsNow == 7
\* longest domain name and longest payload a client encodes
MaxDomainLen == 3
MaxPayloadLen == 2
\* longest datagram handed to the parser
MaxDataLen == 24

\* most [Peer] sections of a configuration file
MaxPeers == 2
\* keys of the pool that is driven with the janitor, and the periods of its ticker
JanitorKeys == 3
JanitorMaxNow == 3

\* ------------------------------------------------------- program constants
\* pool.Cleanup(60 * time.Second)
MaxAgeSeconds == 60
\* NewDNSCache(5 * time.Second)
DnsTtlSeconds == 5
\* NewUDPConnectionPool(1000, ...)
RelayMaxSize == 1000
\* p.cleanupOldestLocked(5)
EvictCount == 5
\* make(chan bool, 1)
ReaderDoneCap == 1

\* the period of the janitor: time.NewTicker(30 * time.Second)
TickerSeconds == 30
NoConn == 0
NoEntry == -1

\* tasks, as owners of locks
Nobody == <<"none", 0>>
RX == <<"rx", 0>>
JAN == <<"jan", 0>>
CR(c) == <<"cr", c>>
RD(c) == <<"rd", c>>

\* a target given as an IP literal and one given as a domain name
Targets == {"lit", "dom"}

VARIABLES
    connections,   \* UDPConnectionPool.connections: key -> association id, NoConn if absent
    currentSize,   \* UDPConnectionPool.currentSize
    maxSize,       \* UDPConnectionPool.maxSize
    creationLock,  \* UDPConnectionPool.creationLock: the set of keys stored in the sync.Map
    conn,          \* UDPConnection objects: lastUsed, closed (conn.Close called), readerDone
    now,           \* the clock, in seconds
    evicted,       \* the keys whose associations the last call of Set evicted
    seq,           \* datagrams read from the server socket so far
    toSend,        \* datagrams the clients have yet to send
    rx,            \* the receive loop: its place and the datagram it handles
    task,          \* creation tasks (go func at handleSocks5UDPPacketSync), one per association;
                   \* payload is the datagram whose bytes its payload slice holds
    rpc,           \* reader tasks (startUDPReader), one per association: their place
    written,       \* per association, the payloads written to its tunnel connection, in
                   \* order, each named by the datagram whose bytes it holds
    lateReads,     \* per association, the reads that returned after its connection was closed
    poolLock,      \* UDPConnectionPool.mu
    dnsLock,       \* DNSCache.mu
    writeMutex,    \* UDPConnection.writeMutex, per association
    dnsCache,      \* DNSCache.cache: the timestamp of the entry of the domain, NoEntry if none
    jpc,           \* the janitor: its place
    data,          \* the datagram handed to parseSocks5HeaderFast, a sequence of bytes
    parsed,        \* what parseSocks5HeaderFast returned for it, NotParsed before the call
    request,       \* the (host, port, payload) a client encoded into data, NoRequest if none
    assoc,         \* the association of a reader: resolvedIP, targetAddr.Port, the address dialed
    tunnel,        \* the bytes the reader has read from the tunnel connection
    sent,          \* the datagram sendUDPResponseFast wrote to the client, NotSent if none
    section,       \* the [Interface] section handed to ParseASecConfig
    loaded,        \* what ParseASecConfig returned for it, NotLoaded before the call
    ipcRequest,    \* DeviceSetting.IpcRequest, line by line, NoIpcRequest before it is built
    device         \* ListenPort and Peers of the DeviceConfig it is built from, NoDevice before

poolVars == <<connections, currentSize, maxSize, creationLock, conn, evicted>>
parserVars == <<data, parsed, request>>
responseVars == <<assoc, tunnel, sent>>
awgVars == <<section, loaded, ipcRequest, device>>
harnessVars == <<parserVars, responseVars, awgVars>>
machineVars == <<seq, toSend, rx, task, rpc, written, lateReads, poolLock, dnsLock,
                 writeMutex, dnsCache, jpc>>
relayVars == <<machineVars, harnessVars>>
vars == <<connections, currentSize, maxSize, creationLock, conn, now, evicted,
          seq, toSend, rx, task, rpc, written, lateReads, poolLock, dnsLock,
          writeMutex, dnsCache, jpc, data, parsed, request, assoc, tunnel, sent,
          section, loaded, ipcRequest, device>>

\* ------------------------------------------------------------------ helpers
Min(S) == CHOOSE x \in S : \A y \in S : x <= y

RECURSIVE SeqOf(_)
SeqOf(S) == IF S = {} THEN <<>> ELSE LET x == Min(S) IN <<x>> \o SeqOf(S \ {x})

RECURSIVE IndexPerms(_)
IndexPerms(S) == IF S = {} THEN {<<>>}
                 ELSE UNION {{<<x>> \o p : p \in IndexPerms(S \ {x})} : x \in S}

\* the permutations of 1..n, for every n a map of the model can hold
PermTable == [n \in 0..PoolKeys |-> IndexPerms(1..n)]

\* every sequence that lists each element of S once
Perms(S) == LET s == SeqOf(S) IN {[i \in 1..Len(s) |-> s[p[i]]] : p \in PermTable[Len(s)]}

Range(s) == {s[i] : i \in 1..Len(s)}

\* ------------------------------------------------------------- pool (pure)
\* The pool as one value: the fields the operations under p.mu read and write.
Pool == [connections |-> connections, currentSize |-> currentSize,
         creationLock |-> creationLock, conn |-> conn]

PresentKeys(P) == {k \in DOMAIN P.connections : P.connections[k] # NoConn}

lastUsedOf(P, key) == P.conn[P.connections[key]].lastUsed

\* a fresh UDPConnection object
newUDPConnection(t) == [made |-> TRUE, lastUsed |-> t, closed |-> FALSE, readerDone |-> 0]

\* an object that no task has allocated yet
noUDPConnection == [made |-> FALSE, lastUsed |-> 0, closed |-> FALSE, readerDone |-> 0]

\* a send that is lost when nobody receives at that moment (an unbuffered channel)
sendUnbuffered(n) == n

\* select { case conn.readerDone <- true: default: }
trySend(n) == IF n < ReaderDoneCap THEN n + 1 ELSE n

\* a removal that closes the connection and keeps the map entry
closeKeepEntry(P, key) ==
    LET c == P.connections[key] IN
    IF c # NoConn
    THEN [P EXCEPT !.conn[c].readerDone = trySend(@),
                   !.conn[c].closed = TRUE,
                   !.creationLock = @ \ {key}]
    ELSE [P EXCEPT !.creationLock = @ \ {key}]

\* The body shared by Delete, cleanupOldLocked and cleanupOldestLocked:
\* signal, close, delete from the map, decrement; then drop the creation flag.
closeAndRemove(P, key) ==
    LET c == P.connections[key] IN
    IF c # NoConn
    THEN [P EXCEPT !.conn[c].readerDone = trySend(@),
                   !.conn[c].closed = TRUE,
                   !.connections[key] = NoConn,
                   !.currentSize = @ - 1,
                   !.creationLock = @ \ {key}]
    ELSE [P EXCEPT !.creationLock = @ \ {key}]

\* the variant that leaves currentSize as it was
deleteUncounted(P, key) == [closeAndRemove(P, key) EXCEPT !.currentSize = P.currentSize]

Delete(P, key) == closeAndRemove(P, key)

RECURSIVE removeKeys(_, _)
removeKeys(P, keys) ==
    IF keys = <<>> THEN P ELSE removeKeys(closeAndRemove(P, Head(keys)), Tail(keys))

\* the variant that takes an association of age maxAge for old
agedAtLeast(P, key, maxAge, t) == t - lastUsedOf(P, key) >= maxAge

\* now.Sub(conn.lastUsed) > maxAge
isOld(P, key, maxAge, t) == t - lastUsedOf(P, key) > maxAge

cleanupOldLocked(P, maxAge, t) ==
    LET toDelete == {k \in PresentKeys(P) : isOld(P, k, maxAge, t)}
    IN removeKeys(P, SeqOf(toDelete))

Cleanup(P, maxAge, t) == cleanupOldLocked(P, maxAge, t)

\* the inner loop: the first buffered key that is strictly newer than key is
\* replaced (conn.lastUsed.Before(p.connections[oldKey].lastUsed)); lu is lastUsed by key
RECURSIVE replaceFirstNewer(_, _, _, _)
replaceFirstNewer(lu, oldest, key, i) ==
    IF i > Len(oldest) THEN oldest
    ELSE IF lu[key] < lu[oldest[i]] THEN [oldest EXCEPT ![i] = key]
    ELSE replaceFirstNewer(lu, oldest, key, i + 1)

\* the scan of the map in iteration order `order`, from its i-th key on, once the
\* first `count` keys have filled the buffer (len(oldest) < count: append, continue)
RECURSIVE scanOldest(_, _, _, _)
scanOldest(lu, order, i, oldest) ==
    IF i > Len(order) THEN oldest
    ELSE scanOldest(lu, order, i + 1, replaceFirstNewer(lu, oldest, order[i], 1))

\* the variant that takes the first `count` keys of the iteration and scans no further
selectFirst(lu, count, order) ==
    IF Len(order) <= count THEN order ELSE SubSeq(order, 1, count)

selectOldest(lu, count, order) ==
    IF Len(order) <= count THEN order
    ELSE scanOldest(lu, order, count + 1, SubSeq(order, 1, count))

\* The keys the scan can select, one set for every iteration order of the map.
OldestSetsOf(lu, count) ==
    {Range(selectOldest(lu, count, order)) : order \in Perms(DOMAIN lu)}

OldestSets(P, count) == OldestSetsOf([k \in PresentKeys(P) |-> lastUsedOf(P, k)], count)

\* `oldest` is the set of keys the scan selected. The removal loop visits distinct
\* keys, so its result does not depend on the order it visits them in.
cleanupOldestLocked(P, count, oldest) ==
    IF P.currentSize <= count THEN P
    ELSE removeKeys(P, SeqOf(oldest))

Set(P, max, key, c, t, oldest) ==
    LET P1 == IF P.currentSize >= max THEN cleanupOldestLocked(P, EvictCount, oldest) ELSE P
    IN [P1 EXCEPT !.conn[c].lastUsed = t,
                  !.connections[key] = c,
                  !.currentSize = @ + 1]

Get(P, key, t) ==
    LET c == P.connections[key] IN
    IF c # NoConn THEN [P EXCEPT !.conn[c].lastUsed = t] ELSE P

\* What the scan of Set can select in state P; the map is scanned only when
\* cleanupOldestLocked is called and does not return early.
ScanChoices(P, max) ==
    IF P.currentSize >= max /\ P.currentSize > EvictCount
    THEN OldestSets(P, EvictCount) ELSE {{}}

\* the keys of P whose association Q has closed
ClosedBy(P, Q) == {k \in PresentKeys(P) : Q.conn[P.connections[k]].closed}

StorePool(Q) ==
    \E P \in {Q} :
        /\ connections' = P.connections
        /\ currentSize' = P.currentSize
        /\ creationLock' = P.creationLock
        /\ conn' = P.conn

\* ------------------------------------------------------------------ parser
\* the largest value of a byte
MaxByte == 2^8 - 1

\* the largest port
MaxPort == 2^16 - 1

\* data[i], with Go's index from 0
byteAt(d, i) == d[i + 1]

\* return "", 0, 0, false
rejected == [ok |-> FALSE, host |-> <<>>, port |-> 0, headerLen |-> 0, panic |-> FALSE]

\* a slice expression past the end of the buffer panics
outOfRange == [ok |-> FALSE, host |-> <<>>, port |-> 0, headerLen |-> 0, panic |-> TRUE]

\* net.IP.To4 of a 16-byte address is not nil: an IPv4-mapped address
isV4Mapped(a) ==
    Len(a) = 16 /\ (\A i \in 1..10 : a[i] = 0) /\ a[11] = MaxByte /\ a[12] = MaxByte

\* the host string: net.IPv4(...).String() is the dotted form of the four bytes,
\* string(data[5:5+domainLen]) holds the bytes of the name, and net.IP(...).String()
\* is the dotted form of the last four bytes of an IPv4-mapped address and the
\* IPv6 text of any other address
hostString(atyp, a) ==
    CASE atyp = 1 -> <<"ip4", a>>
      [] atyp = 4 -> IF isV4Mapped(a) THEN <<"ip4", SubSeq(a, 13, 16)>> ELSE <<"ip6", a>>
      [] OTHER -> <<"name", a>>

\* host = data[lo:hi], port = binary.BigEndian.Uint16(data[hi:hi+2]), headerLen = hi + 2
accepted(d, lo, hi) ==
    IF hi + 2 > Len(d)
    THEN outOfRange
    ELSE [ok |-> TRUE, host |-> hostString(byteAt(d, 3), SubSeq(d, lo + 1, hi)),
          port |-> byteAt(d, hi) * (MaxByte + 1) + byteAt(d, hi + 1),
          headerLen |-> hi + 2, panic |-> FALSE]

\* case 0x03 without the comparison of len(data) with 7+domainLen
parseDomainUnchecked(d) == accepted(d, 5, 5 + byteAt(d, 4))

\* case 0x03
parseDomain(d) ==
    IF Len(d) < 7 + byteAt(d, 4) THEN rejected ELSE accepted(d, 5, 5 + byteAt(d, 4))

parseSocks5HeaderFast(d) ==
    IF Len(d) < 10 \/ byteAt(d, 0) # 0 \/ byteAt(d, 1) # 0 \/ byteAt(d, 2) # 0
    THEN rejected
    ELSE CASE byteAt(d, 3) = 1 -> IF Len(d) < 10 THEN rejected ELSE accepted(d, 4, 8)
           [] byteAt(d, 3) = 3 -> parseDomain(d)
           [] byteAt(d, 3) = 4 -> IF Len(d) < 22 THEN rejected ELSE accepted(d, 4, 20)
           [] OTHER -> rejected

\* no datagram has been parsed
NotParsed == [ok |-> FALSE, host |-> <<>>, port |-> 0, headerLen |-> -1, panic |-> FALSE]

\* payload := data[headerLen:]
payloadOf(d, p) == SubSeq(d, p.headerLen + 1, Len(d))

\* no client request is followed
NoRequest == [host |-> <<>>, port |-> 0, payload |-> <<>>]

\* the parser at rest
ParserIdle == data = <<>> /\ parsed = NotParsed /\ request = NoRequest

\* ---------------------------------------------------------------- responses
\* net.IP.To4 that knows the 4-byte form only
To4OfFourBytes(ip) == IF Len(ip) = 4 THEN ip ELSE <<>>

\* net.IP.To4: the four bytes of an IPv4 address in either form, nil (<<>>) otherwise
To4(ip) ==
    IF Len(ip) = 4 THEN ip ELSE IF isV4Mapped(ip) THEN SubSeq(ip, 13, 16) ELSE <<>>

\* net.IP.String
ipString(ip) == IF To4(ip) # <<>> THEN <<"ip4", To4(ip)>> ELSE <<"ip6", ip>>

\* net.ParseIP: the 16-byte form of an IP literal, nil (<<>>) for any other host
ParseIP(host) ==
    CASE host[1] = "ip4" -> <<0, 0, 0, 0, 0, 0, 0, 0, 0, 0, MaxByte, MaxByte>> \o host[2]
      [] host[1] = "ip6" -> host[2]
      [] OTHER -> <<>>

\* DNSCache.Resolve: the first IPv4 address of the answer, its first address if none
firstIPv4(ips) ==
    IF \E i \in 1..Len(ips) : To4(ips[i]) # <<>>
    THEN ips[Min({i \in 1..Len(ips) : To4(ips[i]) # <<>>})]
    ELSE ips[1]

\* resolveTarget(host, port) with the answer ips of the lookup: the address to dial
\* as a (host, port) pair, and the resolved IP
resolveTarget(host, port, ips) ==
    IF ParseIP(host) # <<>>
    THEN [targetAddr |-> <<host, port>>, ip |-> ParseIP(host)]
    ELSE [targetAddr |-> <<ipString(firstIPv4(ips)), port>>, ip |-> firstIPv4(ips)]

\* createUDPConnectionAsync: the UDPConnection built once Dial has returned
dialed(host, port, ips) ==
    LET t == resolveTarget(host, port, ips) IN
    [dialed |-> t.targetAddr, resolvedIP |-> t.ip, targetPort |-> t.targetAddr[2]]

\* the two bytes binary.BigEndian.PutUint16 writes for uint16(port)
putUint16(port) ==
    <<(port % (MaxPort + 1)) \div (MaxByte + 1), port % (MaxByte + 1)>>

\* the datagram sendUDPResponseFast writes to the client
sendUDPResponseFast(targetIP, targetPort, d) ==
    IF To4(targetIP) # <<>>
    THEN <<0, 0, 0, 1>> \o To4(targetIP) \o putUint16(targetPort) \o d
    ELSE <<0, 0, 0, 4>> \o SubSeq(targetIP, 1, 16) \o putUint16(targetPort) \o d

NoAssoc == [dialed |-> <<>>, resolvedIP |-> <<>>, targetPort |-> 0]
NotSent == <<>>

\* no reader sends a response
ResponseIdle == assoc = NoAssoc /\ tunnel = <<>> /\ sent = NotSent

\* ------------------------------------------------ AmneziaWG configuration
\* A string is a sequence of one-character strings. A uint32 is a pair <<hi, lo>>
\* of 16-bit halves, hi * Half + lo.
Half == 2^16
MaxUint32 == <<Half - 1, Half - 1>>
uint32(n) == <<n \div Half, n % Half>>

lessEq(a, b) == a[1] < b[1] \/ (a[1] = b[1] /\ a[2] <= b[2])

DigitChars == <<"0", "1", "2", "3", "4", "5", "6", "7", "8", "9">>

NoError == ""
\* the texts of the errors
Err ==
    [Syntax |-> "strconv.ParseUint: invalid syntax",
     Range |-> "strconv.ParseUint: value out of range",
     EmptyHeader |-> "empty magic header value",
     HeaderFormat |-> "invalid magic header range format",
     HeaderBound |-> "invalid magic header range: lower bound cannot exceed upper bound",
     HeaderUnique |-> "values of the H1-H4 fields must be unique",
     Jc |-> "value of the Jc field must be within the range of 1 to 128",
     Jmin |-> "value of the Jmin field must be less than or equal to Jmax field value",
     Jmax |-> "value of the Jmax field must be less than or equal 1280",
     SizesLong |-> "value of the field S1 + message initiation size (148) must not equal S2 + message response size (92) + S3 + cookie reply size (64) + S4 + transport packet size (32)",
     SizesShort |-> "value of the field S1 + message initiation size (148) must not equal S2 + message response size (92)"]

\* strconv.ParseUint(s, 10, 32): the digits are folded from the left, and the
\* value leaves the 32 bits when the upper half does
RECURSIVE parseDigits(_, _, _)
parseDigits(s, i, n) ==
    IF i > Len(s) THEN [value |-> n, err |-> NoError]
    ELSE LET digit == {d \in 1..Len(DigitChars) : DigitChars[d] = s[i]}
             lo == n[2] * 10 + (CHOOSE d \in digit : TRUE) - 1
             hi == n[1] * 10 + lo \div Half
         IN IF digit = {} THEN [value |-> uint32(0), err |-> Err.Syntax]
            ELSE IF hi >= Half THEN [value |-> MaxUint32, err |-> Err.Range]
            ELSE parseDigits(s, i + 1, <<hi, lo % Half>>)

ParseUint(s) ==
    IF s = <<>> THEN [value |-> uint32(0), err |-> Err.Syntax]
    ELSE parseDigits(s, 1, uint32(0))

\* strconv.FormatUint(n, 10): the digits of n, the last one first
RECURSIVE FormatUint(_)
FormatUint(n) ==
    LET low == (n[1] % 10) * Half + n[2]
        q == <<n[1] \div 10, low \div 10>>
        last == <<DigitChars[(low % 10) + 1]>>
    IN IF q = uint32(0) THEN last ELSE FormatUint(q) \o last

\* fmt.Sprintf("%d", n) of an int
formatInt(n) ==
    IF n < 0 THEN <<"-">> \o FormatUint(uint32(-n)) ELSE FormatUint(uint32(n))

\* strings.TrimSpace
RECURSIVE TrimSpace(_)
TrimSpace(s) ==
    IF s = <<>> THEN s
    ELSE IF Head(s) = " " THEN TrimSpace(Tail(s))
    ELSE IF s[Len(s)] = " " THEN TrimSpace(SubSeq(s, 1, Len(s) - 1))
    ELSE s

\* strings.Split(s, "-")
RECURSIVE Split(_)
Split(s) ==
    IF \A i \in 1..Len(s) : s[i] # "-" THEN <<s>>
    ELSE LET i == CHOOSE i \in 1..Len(s) : s[i] = "-" /\ \A j \in 1..(i - 1) : s[j] # "-"
         IN <<SubSeq(s, 1, i - 1)>> \o Split(SubSeq(s, i + 1, Len(s)))

parseMagicHeaderInterval(value) ==
    LET trimmed == TrimSpace(value)
        parts == Split(trimmed)
        failed(e) == [min |-> uint32(0), max |-> uint32(0), err |-> e]
    IN IF trimmed = <<>> THEN failed(Err.EmptyHeader)
       ELSE IF Len(parts) = 0 \/ Len(parts) > 2 \/ parts[1] = <<>> THEN failed(Err.HeaderFormat)
       ELSE LET minRaw == ParseUint(parts[1]) IN
       IF minRaw.err # NoError THEN failed(minRaw.err)
       ELSE IF Len(parts) = 1
            THEN [min |-> minRaw.value, max |-> minRaw.value, err |-> NoError]
       ELSE IF parts[2] = <<>> THEN failed(Err.HeaderFormat)
       ELSE LET maxRaw == ParseUint(parts[2]) IN
       IF maxRaw.err # NoError THEN failed(maxRaw.err)
       ELSE IF ~lessEq(minRaw.value, maxRaw.value) THEN failed(Err.HeaderBound)
       ELSE [min |-> minRaw.value, max |-> maxRaw.value, err |-> NoError]

\* the variant that writes the lower bound alone
formatLowerBound(minValue, maxValue) == FormatUint(minValue)

\* the variant that writes every interval as a range
formatAsRange(minValue, maxValue) == FormatUint(minValue) \o <<"-">> \o FormatUint(maxValue)

formatMagicHeaderInterval(minValue, maxValue) ==
    IF minValue = maxValue THEN FormatUint(minValue)
    ELSE FormatUint(minValue) \o <<"-">> \o FormatUint(maxValue)

\* The keys of the [Interface] section that ParseASecConfig reads, in the order
\* it reads them, and the keys CreateIPCRequest writes for them.
IntKeys == <<"Jc", "Jmin", "Jmax", "S1", "S2", "S3", "S4">>
HeaderKeys == <<"H1", "H2", "H3", "H4">>
TextKeys == <<"I1", "I2", "I3", "I4", "I5">>
AwgKeys == IntKeys \o HeaderKeys \o TextKeys
IpcKeys == <<"jc", "jmin", "jmax", "s1", "s2", "s3", "s4", "h1", "h2", "h3", "h4",
             "i1", "i2", "i3", "i4", "i5">>

\* An ASecConfigType. value["Jc"] is junkPacketCount and has["Jc"] is
\* hasJunkPacketCount, and so on for Jmin, Jmax and S1..S4; min["H1"], max["H1"]
\* and has["H1"] are initPacketMagicHeader, initPacketMagicHeaderMax and
\* hasInitPacketMagicHeader, and so on for H2..H4; i["I1"] is the pointer i1.
\* nil tells the nil pointer from a record.
NilString == [nil |-> TRUE, s |-> <<>>]
NilConfig ==
    [nil |-> TRUE,
     has |-> [k \in Range(IntKeys) \cup Range(HeaderKeys) |-> FALSE],
     value |-> [k \in Range(IntKeys) |-> 0],
     min |-> [k \in Range(HeaderKeys) |-> uint32(0)],
     max |-> [k \in Range(HeaderKeys) |-> uint32(0)],
     i |-> [k \in Range(TextKeys) |-> NilString]]

messageInitiationSize == 148
messageResponseSize == 92
messageCookieReplySize == 64
messageTransportSize == 32

packetSizes(config) ==
    <<[isSet |-> config.has["S1"], size |-> messageInitiationSize + config.value["S1"]],
      [isSet |-> config.has["S2"], size |-> messageResponseSize + config.value["S2"]],
      [isSet |-> config.has["S3"], size |-> messageCookieReplySize + config.value["S3"]],
      [isSet |-> config.has["S4"], size |-> messageTransportSize + config.value["S4"]]>>

\* the variant that compares the first two sizes only
firstSizesCollide(sizes) ==
    sizes[1].isSet /\ sizes[2].isSet /\ sizes[1].size = sizes[2].size

\* the two loops over packetSizes
sizesCollide(sizes) ==
    \E i \in 1..Len(sizes), j \in 1..Len(sizes) :
        i < j /\ sizes[i].isSet /\ sizes[j].isSet /\ sizes[i].size = sizes[j].size

defaultMagicHeader == <<uint32(1), uint32(2), uint32(3), uint32(4)>>

\* the variant that leaves the defaults out of the intervals
collectSetHeaderIntervals(config) ==
    LET set == {n \in 1..Len(HeaderKeys) : ~config.nil /\ config.has[HeaderKeys[n]]}
        nth[n \in 0..Len(HeaderKeys)] ==
            IF n = 0 THEN <<>>
            ELSE IF n \in set
                 THEN nth[n - 1] \o <<[key |-> IpcKeys[Len(IntKeys) + n],
                                       min |-> config.min[HeaderKeys[n]],
                                       max |-> config.max[HeaderKeys[n]]]>>
                 ELSE nth[n - 1]
    IN nth[Len(HeaderKeys)]

collectEffectiveHeaderIntervals(config) ==
    [n \in 1..Len(HeaderKeys) |->
        IF ~config.nil /\ config.has[HeaderKeys[n]]
        THEN [key |-> IpcKeys[Len(IntKeys) + n],
              min |-> config.min[HeaderKeys[n]], max |-> config.max[HeaderKeys[n]]]
        ELSE [key |-> IpcKeys[Len(IntKeys) + n],
              min |-> defaultMagicHeader[n], max |-> defaultMagicHeader[n]]]

\* the variant that looks at the lower bound of the right interval only
startsInside(left, right) == lessEq(left.min, right.min) /\ lessEq(right.min, left.max)

\* left.min <= right.max && right.min <= left.max
overlap(left, right) == lessEq(left.min, right.max) /\ lessEq(right.min, left.max)

hasOverlappingHeaderIntervals(intervals) ==
    \E i \in 1..Len(intervals), j \in 1..Len(intervals) :
        i < j /\ overlap(intervals[i], intervals[j])

\* the variant that checks Jmax before Jmin
junkErrorMaxFirst(config) ==
    IF config.has["Jc"] /\ (config.value["Jc"] < 1 \/ config.value["Jc"] > 128) THEN Err.Jc
    ELSE IF config.has["Jmax"] /\ config.value["Jmax"] > 1280 THEN Err.Jmax
    ELSE IF config.has["Jmin"] /\ config.has["Jmax"]
            /\ config.value["Jmin"] > config.value["Jmax"] THEN Err.Jmin
    ELSE NoError

\* the variant without a lower bound of Jc
junkErrorNoLowerBound(config) ==
    IF config.has["Jc"] /\ config.value["Jc"] > 128 THEN Err.Jc
    ELSE IF config.has["Jmin"] /\ config.has["Jmax"]
            /\ config.value["Jmin"] > config.value["Jmax"] THEN Err.Jmin
    ELSE IF config.has["Jmax"] /\ config.value["Jmax"] > 1280 THEN Err.Jmax
    ELSE NoError

\* the three checks of the junk fields
junkError(config) ==
    IF config.has["Jc"] /\ (config.value["Jc"] < 1 \/ config.value["Jc"] > 128) THEN Err.Jc
    ELSE IF config.has["Jmin"] /\ config.has["Jmax"]
            /\ config.value["Jmin"] > config.value["Jmax"] THEN Err.Jmin
    ELSE IF config.has["Jmax"] /\ config.value["Jmax"] > 1280 THEN Err.Jmax
    ELSE NoError

\* the variant whose message names S3 and S4 only when one of them is in a
\* colliding pair
collisionErrorOfPair(config) ==
    LET sizes == packetSizes(config) IN
    IF \E i \in 1..Len(sizes), j \in 3..Len(sizes) :
          i < j /\ sizes[i].isSet /\ sizes[j].isSet /\ sizes[i].size = sizes[j].size
    THEN Err.SizesLong ELSE Err.SizesShort

\* the error returned from inside the loops once two sizes are equal
collisionError(config) ==
    IF config.has["S3"] \/ config.has["S4"] THEN Err.SizesLong ELSE Err.SizesShort

ValidateASecConfig(config) ==
    IF config.nil THEN NoError
    ELSE IF junkError(config) # NoError THEN junkError(config)
    ELSE IF sizesCollide(packetSizes(config)) THEN collisionError(config)
    ELSE LET intervals == collectEffectiveHeaderIntervals(config) IN
         IF \E n \in 1..Len(intervals) : ~lessEq(intervals[n].min, intervals[n].max)
         THEN Err.HeaderBound
         ELSE IF hasOverlappingHeaderIntervals(intervals) THEN Err.HeaderUnique
         ELSE NoError

\* The [Interface] section: for every key whether the section has it and its
\* value, an integer for Jc..S4 and a string for H1..H4 and I1..I5.
ParseASecConfig(sec) ==
    LET h == [k \in Range(HeaderKeys) |-> parseMagicHeaderInterval(sec[k].value)]
        bad == {n \in 1..Len(HeaderKeys) :
                  sec[HeaderKeys[n]].set /\ h[HeaderKeys[n]].err # NoError}
        first == CHOOSE n \in bad : \A m \in bad : n <= m
        aSecConfig ==
            IF \A k \in Range(AwgKeys) : ~sec[k].set THEN NilConfig
            ELSE [nil |-> FALSE,
                  has |-> [k \in Range(IntKeys) \cup Range(HeaderKeys) |-> sec[k].set],
                  value |-> [k \in Range(IntKeys) |->
                               IF sec[k].set THEN sec[k].value ELSE 0],
                  min |-> [k \in Range(HeaderKeys) |->
                             IF sec[k].set THEN h[k].min ELSE uint32(0)],
                  max |-> [k \in Range(HeaderKeys) |->
                             IF sec[k].set THEN h[k].max ELSE uint32(0)],
                  i |-> [k \in Range(TextKeys) |->
                           IF sec[k].set THEN [nil |-> FALSE, s |-> sec[k].value]
                           ELSE NilString]]
    IN IF bad # {} THEN [config |-> NilConfig, err |-> h[HeaderKeys[first]].err]
       ELSE IF ValidateASecConfig(aSecConfig) # NoError
            THEN [config |-> NilConfig, err |-> ValidateASecConfig(aSecConfig)]
       ELSE [config |-> aSecConfig, err |-> NoError]

RECURSIVE concat(_)
concat(ss) == IF ss = <<>> THEN <<>> ELSE Head(ss) \o concat(Tail(ss))

\* a line key=value of the IPC request
line(key, value) == <<[key |-> key, value |-> value]>>

\* the variant that takes a zero for an absent field
isSetNonZero(aSecConfig, k) ==
    IF k \in Range(TextKeys) THEN ~aSecConfig.i[k].nil
    ELSE IF k \in Range(IntKeys) THEN aSecConfig.has[k] /\ aSecConfig.value[k] # 0
    ELSE aSecConfig.has[k]

\* the condition under which CreateIPCRequest writes the line of a field
isSet(aSecConfig, k) ==
    IF k \in Range(TextKeys) THEN ~aSecConfig.i[k].nil ELSE aSecConfig.has[k]

\* the lines of aSecBuilder
aSecLines(aSecConfig) ==
    concat([n \in 1..Len(AwgKeys) |->
        LET k == AwgKeys[n] IN
        IF ~isSet(aSecConfig, k) THEN <<>>
        ELSE IF k \in Range(IntKeys) THEN line(IpcKeys[n], formatInt(aSecConfig.value[k]))
        ELSE IF k \in Range(HeaderKeys)
        THEN line(IpcKeys[n], formatMagicHeaderInterval(aSecConfig.min[k], aSecConfig.max[k]))
        ELSE line(IpcKeys[n], aSecConfig.i[k].s)])

\* the allowed_ip lines of a peer: its prefixes, or the two defaults
allowedLines(peer) ==
    IF Len(peer.AllowedIPs) > 0
    THEN concat([n \in 1..Len(peer.AllowedIPs) |-> line("allowed_ip", peer.AllowedIPs[n])])
    ELSE line("allowed_ip", <<"0.0.0.0/0">>) \o line("allowed_ip", <<"::0/0">>)

\* the variant that writes the endpoint after the allowed_ip lines
peerLinesEndpointLast(peer) ==
    line("public_key", peer.PublicKey)
    \o line("persistent_keepalive_interval", formatInt(peer.KeepAlive))
    \o line("preshared_key", peer.PreSharedKey)
    \o allowedLines(peer)
    \o (IF ~peer.Endpoint.nil THEN line("endpoint", peer.Endpoint.s) ELSE <<>>)

\* the body of the loop over conf.Peers
peerLines(peer) ==
    line("public_key", peer.PublicKey)
    \o line("persistent_keepalive_interval", formatInt(peer.KeepAlive))
    \o line("preshared_key", peer.PreSharedKey)
    \o (IF ~peer.Endpoint.nil THEN line("endpoint", peer.Endpoint.s) ELSE <<>>)
    \o allowedLines(peer)

\* setting.IpcRequest, line by line
CreateIPCRequest(conf) ==
    line("private_key", conf.SecretKey)
    \o (IF ~conf.ListenPort.nil
        THEN line("listen_port", formatInt(conf.ListenPort.value)) ELSE <<>>)
    \o (IF ~conf.ASecConfig.nil THEN aSecLines(conf.ASecConfig) ELSE <<>>)
    \o concat([n \in 1..Len(conf.Peers) |-> peerLines(conf.Peers[n])])

\* the DeviceConfig of a configuration file: the AmneziaWG record of the
\* [Interface] section, its ListenPort and the [Peer] sections
DeviceConfig(aSecConfig, rest) ==
    [SecretKey |-> <<"key">>, ListenPort |-> rest.ListenPort,
     ASecConfig |-> aSecConfig, Peers |-> rest.Peers]

NotLoaded == [config |-> NilConfig, err |-> "not loaded"]
NoIpcRequest == <<>>
NoDevice == [ListenPort |-> [nil |-> TRUE, value |-> 0], Peers |-> <<>>]

\* no configuration is read
AwgIdle ==
    section = <<>> /\ loaded = NotLoaded /\ ipcRequest = NoIpcRequest /\ device = NoDevice

\* the relay before its first datagram
RelayIdle(Conns, n) ==
    /\ seq = 0
    /\ toSend = n
    /\ rx = [pc |-> "recv", client |-> 0, target |-> "none", seq |-> 0, conn |-> NoConn]
    /\ task = [c \in Conns |->
                 [pc |-> "unused", key |-> 0, target |-> "none", seq |-> 0, regSeq |-> 0,
                  payload |-> 0]]
    /\ rpc = [c \in Conns |-> "unstarted"]
    /\ written = [c \in Conns |-> <<>>]
    /\ lateReads = [c \in Conns |-> 0]
    /\ poolLock = [w |-> Nobody, r |-> {}]
    /\ dnsLock = [w |-> Nobody, r |-> {}]
    /\ writeMutex = [c \in Conns |-> Nobody]
    /\ dnsCache = NoEntry
    /\ jpc = "idle"
    /\ ParserIdle
    /\ ResponseIdle
    /\ AwgIdle

\* --------------------------------------------------- the pool driven alone
\* A harness that constructs a pool and calls Get, Set, Delete and Cleanup on it,
\* each call when p.mu is free.
\* The object registered under key k is named k; an object the pool no longer
\* holds is unreachable in this harness and is forgotten.
PKeys == 1..PoolKeys

PoolInit ==
    /\ connections = [k \in PKeys |-> NoConn]
    /\ currentSize = 0
    /\ maxSize \in {1, PoolMaxSize}
    /\ creationLock = {}
    /\ conn = [c \in PKeys |-> noUDPConnection]
    /\ now = 0
    /\ evicted = {}
    /\ RelayIdle({}, 0)

Forget(P) ==
    [P EXCEPT !.conn = [c \in DOMAIN P.conn |->
        IF \E k \in DOMAIN P.connections : P.connections[k] = c
        THEN P.conn[c] ELSE noUDPConnection]]

PoolTick ==
    /\ now < PoolMaxNow * InstantSeconds
    /\ now' = now + InstantSeconds
    /\ evicted' = {}
    /\ UNCHANGED <<connections, currentSize, maxSize, creationLock, conn>>
    /\ UNCHANGED relayVars

PoolGet ==
    /\ poolLock.w = Nobody
    /\ \E k \in DOMAIN connections : StorePool(Forget(Get(Pool, k, now)))
    /\ evicted' = {}
    /\ UNCHANGED <<maxSize, now>>
    /\ UNCHANGED relayVars

PoolDelete ==
    /\ poolLock = [w |-> Nobody, r |-> {}]
    /\ \E k \in DOMAIN connections : StorePool(Forget(Delete(Pool, k)))
    /\ evicted' = {}
    /\ UNCHANGED <<maxSize, now>>
    /\ UNCHANGED relayVars

PoolCleanup ==
    /\ \E maxAge \in {0, InstantSeconds} : StorePool(Forget(Cleanup(Pool, maxAge, now)))
    /\ evicted' = {}
    /\ UNCHANGED <<maxSize, now>>
    /\ UNCHANGED relayVars

\* createUDPConnectionAsync allocates the object, then calls pool.Set. The new
\* object takes the name of its key once Set has returned.
PoolSetOf(keys) ==
    /\ poolLock = [w |-> Nobody, r |-> {}]
    /\ \E k \in keys, oldest \in ScanChoices(Pool, maxSize) :
         \E P1 \in {Set(Pool, maxSize, k, k, now, oldest)} :
            /\ evicted' = ClosedBy(Pool, P1)
            /\ StorePool(Forget([P1 EXCEPT !.conn[k] = newUDPConnection(now)]))
    /\ UNCHANGED <<maxSize, now>>
    /\ UNCHANGED relayVars

PoolSet == PoolSetOf(DOMAIN connections)

PoolNext == PoolTick \/ PoolGet \/ PoolSet \/ PoolDelete \/ PoolCleanup

PoolSpec == PoolInit /\ [][PoolNext]_vars

\* ------------------------------------------------------------------ relay
\* sync.RWMutex and sync.Mutex: who may take them, and the lock once taken or left
CanRLock(l) == l.w = Nobody
CanLock(l) == l.w = Nobody /\ l.r = {}
RLocked(l, t) == [l EXCEPT !.r = @ \cup {t}]
RUnlocked(l, t) == [l EXCEPT !.r = @ \ {t}]
Locked(l, t) == [l EXCEPT !.w = t]
Unlocked(l) == [l EXCEPT !.w = Nobody]

RxIdle == [pc |-> "recv", client |-> 0, target |-> "none", seq |-> 0, conn |-> NoConn]

\* the association a new creation task will build
NextConn == Min({c \in DOMAIN task : task[c].pc = "unused"})

\* an entry exists, whatever its age
dnsCached == dnsCache # NoEntry

\* entry.timestamp is fresh: time.Since(entry.timestamp) < d.ttl
dnsFresh == dnsCache # NoEntry /\ now - dnsCache < DnsTtlSeconds

\* NewUDPConnectionPool(1000, mtu), before the first datagram
RelayStart(Clients, Conns, n) ==
    /\ connections = [k \in Clients |-> NoConn]
    /\ currentSize = 0
    /\ maxSize = RelayMaxSize
    /\ creationLock = {}
    /\ conn = [c \in Conns |-> noUDPConnection]
    /\ now = 0
    /\ evicted = {}
    /\ RelayIdle(Conns, n)

RelayInit == RelayStart(1..NumClients, 1..MaxConns, MaxDatagrams)

\* ---- the receive loop (StartSocks5UDPServer, handleSocks5UDPPacketSync)
\* the creation tasks that have yet to write the payload they were handed
holdsPayload(c) == task[c].pc \notin {"unused", "release", "done"}

\* bufferPool.Get(): a buffer that an earlier turn of the loop has put back, or a
\* new one from New. A buffer is named by the datagram it holds; the buffers no
\* payload of a running creation task lies in are all alike and go by the name 0.
BufferChoices == {0} \cup {task[c].payload : c \in {d \in DOMAIN task : holdsPayload(d)}}

\* conn.ReadFromUDP(buf) stores datagram s in buffer b: the payload slice of every
\* creation task that lies in b holds the bytes of s from then on
readInto(b, s) ==
    [c \in DOMAIN task |->
        IF holdsPayload(c) /\ task[c].payload = b THEN [task[c] EXCEPT !.payload = s]
        ELSE task[c]]

\* a datagram is read and parsed; pool.Get takes the read lock
RxReceive ==
    /\ rx.pc = "recv" /\ toSend > 0
    /\ \E c \in DOMAIN task : task[c].pc = "unused"
    /\ CanRLock(poolLock)
    /\ \E k \in DOMAIN connections, tg \in Targets :
         rx' = [pc |-> "get", client |-> k, target |-> tg, seq |-> seq + 1, conn |-> NoConn]
    /\ \E b \in BufferChoices : task' = readInto(b, seq + 1)
    /\ seq' = seq + 1
    /\ toSend' = toSend - 1
    /\ poolLock' = RLocked(poolLock, RX)
    /\ UNCHANGED harnessVars
    /\ UNCHANGED <<poolVars, now, rpc, written, lateReads, dnsLock, writeMutex,
                   dnsCache, jpc>>

\* a datagram is read and parseSocks5HeaderFast rejects it
RxDrop ==
    /\ rx.pc = "recv" /\ toSend > 0
    /\ \E b \in BufferChoices : task' = readInto(b, seq + 1)
    /\ seq' = seq + 1
    /\ toSend' = toSend - 1
    /\ UNCHANGED harnessVars
    /\ UNCHANGED <<poolVars, now, rx, rpc, written, lateReads, poolLock, dnsLock,
                   writeMutex, dnsCache, jpc>>

\* pool.Get that returns with the read lock still held
RxGetHoldingLock ==
    /\ rx.pc = "get"
    /\ StorePool(Get(Pool, rx.client, now))
    /\ rx' = IF connections[rx.client] # NoConn
             THEN [rx EXCEPT !.pc = "write", !.conn = connections[rx.client]]
             ELSE [rx EXCEPT !.pc = "los"]
    /\ UNCHANGED harnessVars
    /\ UNCHANGED <<maxSize, evicted, now, seq, task, rpc, written, lateReads, poolLock,
                   dnsLock, writeMutex, dnsCache, jpc, toSend>>

\* pool.Get under the read lock, which it leaves on return
RxGet ==
    /\ rx.pc = "get"
    /\ StorePool(Get(Pool, rx.client, now))
    /\ poolLock' = RUnlocked(poolLock, RX)
    /\ rx' = IF connections[rx.client] # NoConn
             THEN [rx EXCEPT !.pc = "write", !.conn = connections[rx.client]]
             ELSE [rx EXCEPT !.pc = "los"]
    /\ UNCHANGED harnessVars
    /\ UNCHANGED <<maxSize, evicted, now, seq, task, rpc, written, lateReads, dnsLock,
                   writeMutex, dnsCache, jpc, toSend>>

\* pool.creationLock.LoadOrStore: drop the datagram, or start a creation task
RxLoadOrStore ==
    /\ rx.pc = "los"
    /\ IF rx.client \in creationLock
       THEN UNCHANGED <<creationLock, task>>
       ELSE /\ creationLock' = creationLock \cup {rx.client}
            /\ task' = [task EXCEPT ![NextConn] =
                          [pc |-> "resolve", key |-> rx.client, target |-> rx.target,
                           seq |-> rx.seq, regSeq |-> 0, payload |-> rx.seq]]
    /\ rx' = RxIdle
    /\ UNCHANGED harnessVars
    /\ UNCHANGED <<connections, currentSize, maxSize, conn, evicted, now, seq, rpc,
                   written, lateReads, poolLock, dnsLock, writeMutex, dnsCache, jpc,
                   toSend>>

\* processUDPRequestSync on a pool hit: udpConn.writeMutex.Lock()
RxWriteLock ==
    /\ rx.pc = "write"
    /\ writeMutex[rx.conn] = Nobody
    /\ writeMutex' = [writeMutex EXCEPT ![rx.conn] = RX]
    /\ rx' = [rx EXCEPT !.pc = "writing"]
    /\ UNCHANGED harnessVars
    /\ UNCHANGED <<poolVars, now, seq, task, rpc, written, lateReads, poolLock, dnsLock,
                   dnsCache, jpc, toSend>>

\* udpConn.conn.Write(payload): a closed connection takes nothing, the error is dropped
connWrite(c, d) == [written EXCEPT ![c] = IF conn[c].closed THEN @ ELSE Append(@, d)]

\* the write, then the deferred Unlock
RxWrite ==
    /\ rx.pc = "writing"
    /\ written' = connWrite(rx.conn, rx.seq)
    /\ writeMutex' = [writeMutex EXCEPT ![rx.conn] = Nobody]
    /\ rx' = RxIdle
    /\ UNCHANGED harnessVars
    /\ UNCHANGED <<poolVars, now, seq, task, rpc, lateReads, poolLock, dnsLock,
                   dnsCache, jpc, toSend>>

\* ---- a creation task (createUDPConnectionAsync and the deferred creationLock.Delete)
\* createUDPConnectionAsync has returned: its payload slice is dead, the deferred
\* creationLock.Delete is next
returned(t) == [t EXCEPT !.pc = "release", !.payload = 0]

\* resolveTarget: an IP literal needs no lookup; a domain goes to Resolve, which
\* takes the read lock of the cache
CrResolve(c) ==
    /\ task[c].pc = "resolve"
    /\ IF task[c].target = "lit"
       THEN /\ task' = [task EXCEPT ![c].pc = "dial"]
            /\ UNCHANGED dnsLock
       ELSE /\ CanRLock(dnsLock)
            /\ dnsLock' = RLocked(dnsLock, CR(c))
            /\ task' = [task EXCEPT ![c].pc = "dnsRead"]
    /\ UNCHANGED harnessVars
    /\ UNCHANGED <<poolVars, now, seq, rx, rpc, written, lateReads, poolLock,
                   writeMutex, dnsCache, jpc, toSend>>

\* Resolve: the cache is read and the read lock left
CrDnsRead(c) ==
    /\ task[c].pc = "dnsRead"
    /\ dnsLock' = RUnlocked(dnsLock, CR(c))
    /\ task' = [task EXCEPT ![c].pc = IF dnsFresh THEN "dial" ELSE "lookup"]
    /\ UNCHANGED harnessVars
    /\ UNCHANGED <<poolVars, now, seq, rx, rpc, written, lateReads, poolLock,
                   writeMutex, dnsCache, jpc, toSend>>

\* net.LookupIP fails or returns no address, or returns one
CrLookup(c) ==
    /\ task[c].pc = "lookup"
    /\ \/ task' = [task EXCEPT ![c] = returned(@)]
       \/ task' = [task EXCEPT ![c].pc = "dnsStore"]
    /\ UNCHANGED harnessVars
    /\ UNCHANGED <<poolVars, now, seq, rx, rpc, written, lateReads, poolLock, dnsLock,
                   writeMutex, dnsCache, jpc, toSend>>

\* Resolve: d.mu.Lock()
CrDnsLock(c) ==
    /\ task[c].pc = "dnsStore"
    /\ CanLock(dnsLock)
    /\ dnsLock' = Locked(dnsLock, CR(c))
    /\ task' = [task EXCEPT ![c].pc = "dnsStoring"]
    /\ UNCHANGED harnessVars
    /\ UNCHANGED <<poolVars, now, seq, rx, rpc, written, lateReads, poolLock,
                   writeMutex, dnsCache, jpc, toSend>>

\* Resolve: the entry is stored with time.Now(), d.mu.Unlock()
CrDnsStore(c) ==
    /\ task[c].pc = "dnsStoring"
    /\ dnsCache' = now
    /\ dnsLock' = Unlocked(dnsLock)
    /\ task' = [task EXCEPT ![c].pc = "dial"]
    /\ UNCHANGED harnessVars
    /\ UNCHANGED <<poolVars, now, seq, rx, rpc, written, lateReads, poolLock,
                   writeMutex, jpc, toSend>>

\* vt.Tnet.Dial fails, or returns the connection and the UDPConnection is built
CrDial(c) ==
    /\ task[c].pc = "dial"
    /\ \/ /\ task' = [task EXCEPT ![c] = returned(@)]
          /\ UNCHANGED conn
       \/ /\ task' = [task EXCEPT ![c].pc = "set"]
          /\ conn' = [conn EXCEPT ![c] = newUDPConnection(now)]
    /\ UNCHANGED harnessVars
    /\ UNCHANGED <<connections, currentSize, maxSize, creationLock, evicted, now, seq,
                   rx, rpc, written, lateReads, poolLock, dnsLock, writeMutex,
                   dnsCache, jpc, toSend>>

\* pool.Set: p.mu.Lock()
CrSetLock(c) ==
    /\ task[c].pc = "set"
    /\ CanLock(poolLock)
    /\ poolLock' = Locked(poolLock, CR(c))
    /\ task' = [task EXCEPT ![c].pc = "setting"]
    /\ UNCHANGED harnessVars
    /\ UNCHANGED <<poolVars, now, seq, rx, rpc, written, lateReads, dnsLock,
                   writeMutex, dnsCache, jpc, toSend>>

\* pool.Set under the lock, then the deferred Unlock
CrSet(c) ==
    /\ task[c].pc = "setting"
    /\ \E oldest \in ScanChoices(Pool, maxSize) :
         \E P1 \in {Set(Pool, maxSize, task[c].key, c, now, oldest)} :
            /\ evicted' = ClosedBy(Pool, P1)
            /\ StorePool(P1)
    /\ poolLock' = Unlocked(poolLock)
    /\ task' = [task EXCEPT ![c].pc = "spawn", ![c].regSeq = seq]
    /\ UNCHANGED harnessVars
    /\ UNCHANGED <<maxSize, now, seq, rx, rpc, written, lateReads, dnsLock,
                   writeMutex, dnsCache, jpc, toSend>>

\* go startUDPReader(conn, serverConn, pool, connKey)
CrSpawnReader(c) ==
    /\ task[c].pc = "spawn"
    /\ rpc' = [rpc EXCEPT ![c] = "select"]
    /\ task' = [task EXCEPT ![c].pc = "write"]
    /\ UNCHANGED harnessVars
    /\ UNCHANGED <<poolVars, now, seq, rx, written, lateReads, poolLock, dnsLock,
                   writeMutex, dnsCache, jpc, toSend>>

\* processUDPRequestSync(conn, payload): udpConn.writeMutex.Lock()
CrWriteLock(c) ==
    /\ task[c].pc = "write"
    /\ writeMutex[c] = Nobody
    /\ writeMutex' = [writeMutex EXCEPT ![c] = CR(c)]
    /\ task' = [task EXCEPT ![c].pc = "writing"]
    /\ UNCHANGED harnessVars
    /\ UNCHANGED <<poolVars, now, seq, rx, rpc, written, lateReads, poolLock, dnsLock,
                   dnsCache, jpc, toSend>>

\* the initial payload is written, then the deferred Unlock
CrWrite(c) ==
    /\ task[c].pc = "writing"
    /\ written' = connWrite(c, task[c].payload)
    /\ writeMutex' = [writeMutex EXCEPT ![c] = Nobody]
    /\ task' = [task EXCEPT ![c] = returned(@)]
    /\ UNCHANGED harnessVars
    /\ UNCHANGED <<poolVars, now, seq, rx, rpc, lateReads, poolLock, dnsLock,
                   dnsCache, jpc, toSend>>

\* a creation task that returns and leaves its marker in creationLock
CrReturnKeepingMarker(c) ==
    /\ task[c].pc = "release"
    /\ task' = [task EXCEPT ![c].pc = "done"]
    /\ UNCHANGED harnessVars
    /\ UNCHANGED <<poolVars, now, seq, rx, rpc, written, lateReads, poolLock, dnsLock,
                   writeMutex, dnsCache, jpc, toSend>>

\* a creation task that removes its marker only when it has registered an association
CrReleaseIfRegistered(c) ==
    /\ task[c].pc = "release"
    /\ creationLock' = IF task[c].regSeq > 0 THEN creationLock \ {task[c].key}
                       ELSE creationLock
    /\ task' = [task EXCEPT ![c].pc = "done"]
    /\ UNCHANGED harnessVars
    /\ UNCHANGED <<connections, currentSize, maxSize, conn, evicted, now, seq, rx, rpc,
                   written, lateReads, poolLock, dnsLock, writeMutex, dnsCache, jpc, toSend>>

\* defer pool.creationLock.Delete(connKey)
CrRelease(c) ==
    /\ task[c].pc = "release"
    /\ creationLock' = creationLock \ {task[c].key}
    /\ task' = [task EXCEPT ![c].pc = "done"]
    /\ UNCHANGED harnessVars
    /\ UNCHANGED <<connections, currentSize, maxSize, conn, evicted, now, seq, rx, rpc,
                   written, lateReads, poolLock, dnsLock, writeMutex, dnsCache, jpc, toSend>>

\* ---- a reader task (startUDPReader)
\* select: a pending shutdown message ends the reader, else the default branch reads
RdSelect(c) ==
    /\ rpc[c] = "select"
    /\ IF conn[c].readerDone > 0
       THEN /\ conn' = [conn EXCEPT ![c].readerDone = @ - 1]
            /\ rpc' = [rpc EXCEPT ![c] = "done"]
       ELSE /\ rpc' = [rpc EXCEPT ![c] = "read"]
            /\ UNCHANGED conn
    /\ UNCHANGED harnessVars
    /\ UNCHANGED <<connections, currentSize, maxSize, creationLock, evicted, now, seq,
                   rx, task, written, lateReads, poolLock, dnsLock, writeMutex,
                   dnsCache, jpc, toSend>>

\* reads that returned on a closed connection, counted up to LateReadsCap
lateRead(c) ==
    [lateReads EXCEPT ![c] = IF conn[c].closed /\ @ < LateReadsCap THEN @ + 1 ELSE @]

\* conn.Read with a 50 ms deadline returns data (lastUsed is refreshed and the
\* response sent), a timeout, or another error
RdRead(c) ==
    /\ rpc[c] = "read"
    /\ \/ /\ ~conn[c].closed
          /\ conn' = [conn EXCEPT ![c].lastUsed = now]
          /\ rpc' = [rpc EXCEPT ![c] = "select"]
       \/ /\ rpc' = [rpc EXCEPT ![c] = "select"]
          /\ UNCHANGED conn
       \/ /\ rpc' = [rpc EXCEPT ![c] = "delete"]
          /\ UNCHANGED conn
    /\ lateReads' = lateRead(c)
    /\ UNCHANGED harnessVars
    /\ UNCHANGED <<connections, currentSize, maxSize, creationLock, evicted, now, seq,
                   rx, task, written, poolLock, dnsLock, writeMutex, dnsCache, jpc, toSend>>

\* pool.Delete(connKey): p.mu.Lock()
RdDeleteLock(c) ==
    /\ rpc[c] = "delete"
    /\ CanLock(poolLock)
    /\ poolLock' = Locked(poolLock, RD(c))
    /\ rpc' = [rpc EXCEPT ![c] = "deleting"]
    /\ UNCHANGED harnessVars
    /\ UNCHANGED <<poolVars, now, seq, rx, task, written, lateReads, dnsLock,
                   writeMutex, dnsCache, jpc, toSend>>

\* pool.Delete(connKey) under the lock, the deferred Unlock, and the reader returns
RdDelete(c) ==
    /\ rpc[c] = "deleting"
    /\ StorePool(Delete(Pool, task[c].key))
    /\ poolLock' = Unlocked(poolLock)
    /\ rpc' = [rpc EXCEPT ![c] = "done"]
    /\ UNCHANGED harnessVars
    /\ UNCHANGED <<maxSize, evicted, now, seq, rx, task, written, lateReads, dnsLock,
                   writeMutex, dnsCache, jpc, toSend>>

\* ---- the janitor
\* InstantSeconds pass, in which the ticker has fired unless the janitor is still at work
Tick ==
    /\ now < MaxNow * InstantSeconds
    /\ now' = now + InstantSeconds
    /\ jpc' = IF jpc = "idle" THEN "fire" ELSE jpc
    /\ UNCHANGED harnessVars
    /\ UNCHANGED <<poolVars, seq, rx, task, rpc, written, lateReads, poolLock, dnsLock,
                   writeMutex, dnsCache, toSend>>

\* pool.Cleanup: p.mu.Lock()
JanLock ==
    /\ jpc = "fire"
    /\ CanLock(poolLock)
    /\ poolLock' = Locked(poolLock, JAN)
    /\ jpc' = "cleanup"
    /\ UNCHANGED harnessVars
    /\ UNCHANGED <<poolVars, now, seq, rx, task, rpc, written, lateReads, dnsLock,
                   writeMutex, dnsCache, toSend>>

\* pool.Cleanup(60 * time.Second) under the lock, then the deferred Unlock
JanCleanup ==
    /\ jpc = "cleanup"
    /\ StorePool(Cleanup(Pool, MaxAgeSeconds, now))
    /\ poolLock' = Unlocked(poolLock)
    /\ jpc' = "idle"
    /\ UNCHANGED harnessVars
    /\ UNCHANGED <<maxSize, evicted, now, seq, rx, task, rpc, written, lateReads,
                   dnsLock, writeMutex, dnsCache, toSend>>

RxStep == RxReceive \/ RxDrop \/ RxGet \/ RxLoadOrStore \/ RxWriteLock \/ RxWrite
CrStep(c) ==
    \/ CrResolve(c) \/ CrDnsRead(c) \/ CrLookup(c) \/ CrDnsLock(c) \/ CrDnsStore(c)
    \/ CrDial(c) \/ CrSetLock(c) \/ CrSet(c) \/ CrSpawnReader(c) \/ CrWriteLock(c)
    \/ CrWrite(c) \/ CrRelease(c)
RdStep(c) == RdSelect(c) \/ RdRead(c) \/ RdDeleteLock(c) \/ RdDelete(c)
JanStep == JanLock \/ JanCleanup

Next ==
    \/ RxStep
    \/ \E c \in DOMAIN task : CrStep(c)
    \/ \E c \in DOMAIN task : RdStep(c)
    \/ JanStep
    \/ Tick

Spec == RelayInit /\ [][Next]_vars

\* The runs in which progress is checked: the Go scheduler runs every task that can
\* take a step, a read returns at its deadline at the latest, and a mutex that is
\* left is handed to a task that waits for it.
FairInit == RelayStart(1..LiveClients, 1..LiveConns, LiveDatagrams)

FairSpec ==
    /\ FairInit /\ [][Next]_vars
    /\ WF_vars(RxStep) /\ WF_vars(JanStep)
    /\ \A c \in 1..LiveConns : WF_vars(CrStep(c)) /\ WF_vars(RdStep(c))

\* ------------------------------------------- the pool and the janitor alone
\* The pool of the relay (maxSize 1000) over JanitorKeys keys, driven by Get, Set
\* and Delete while the ticker of the janitor fires every TickerSeconds and the
\* janitor calls Cleanup(60 s). The objects Cleanup closes stay visible until the
\* next call of Get, Set or Delete.
JanitorInit ==
    /\ connections = [k \in 1..JanitorKeys |-> NoConn]
    /\ currentSize = 0
    /\ maxSize = RelayMaxSize
    /\ creationLock = {}
    /\ conn = [c \in 1..JanitorKeys |-> noUDPConnection]
    /\ now = 0
    /\ evicted = {}
    /\ RelayIdle({}, 0)

\* a period of the ticker passes: it has fired unless the janitor is still at work
JanitorTick ==
    /\ now < JanitorMaxNow * TickerSeconds
    /\ now' = now + TickerSeconds
    /\ jpc' = IF jpc = "idle" THEN "fire" ELSE jpc
    /\ UNCHANGED harnessVars
    /\ UNCHANGED <<poolVars, seq, rx, task, rpc, written, lateReads, poolLock, dnsLock,
                   writeMutex, dnsCache, toSend>>

\* createUDPConnectionAsync for a key that Get has missed
JanitorSet == PoolSetOf(DOMAIN connections \ PresentKeys(Pool))

JanitorNext ==
    PoolGet \/ JanitorSet \/ PoolDelete \/ JanitorTick \/ JanLock \/ JanCleanup

JanitorSpec == JanitorInit /\ [][JanitorNext]_vars

\* ---------------------------------------------- the DNS cache driven alone
\* DnsResolvers tasks call Resolve for the domain again and again while the clock
\* moves second by second.
DnsInit ==
    /\ connections = <<>> /\ currentSize = 0 /\ maxSize = RelayMaxSize
    /\ creationLock = {} /\ conn = <<>> /\ now = 0 /\ evicted = {}
    /\ seq = 0 /\ toSend = 0 /\ rx = RxIdle
    /\ task = [c \in 1..DnsResolvers |->
                 [pc |-> "resolve", key |-> 0, target |-> "dom", seq |-> 0, regSeq |-> 0,
                  payload |-> 0]]
    /\ rpc = [c \in 1..DnsResolvers |-> "unstarted"]
    /\ written = [c \in 1..DnsResolvers |-> <<>>]
    /\ lateReads = [c \in 1..DnsResolvers |-> 0]
    /\ poolLock = [w |-> Nobody, r |-> {}] /\ dnsLock = [w |-> Nobody, r |-> {}]
    /\ writeMutex = [c \in 1..DnsResolvers |-> Nobody]
    /\ dnsCache = NoEntry /\ jpc = "idle"
    /\ ParserIdle /\ ResponseIdle /\ AwgIdle

\* Resolve has returned, an IP or an error, and the task calls it again
DnsCall(c) ==
    /\ task[c].pc \in {"dial", "release"}
    /\ task' = [task EXCEPT ![c].pc = "resolve"]
    /\ UNCHANGED <<poolVars, now, seq, toSend, rx, rpc, written, lateReads, poolLock,
                   dnsLock, writeMutex, dnsCache, jpc, harnessVars>>

\* a second passes
DnsTick ==
    /\ now < MaxDnsNow
    /\ now' = now + 1
    /\ UNCHANGED <<poolVars, machineVars, harnessVars>>

DnsStep(c) ==
    \/ CrResolve(c) \/ CrDnsRead(c) \/ CrLookup(c) \/ CrDnsLock(c) \/ CrDnsStore(c)
    \/ DnsCall(c)

DnsNext == (\E c \in DOMAIN task : DnsStep(c)) \/ DnsTick

DnsSpec == DnsInit /\ [][DnsNext]_vars

\* ------------------------------------------------- the parser driven alone
\* The datagrams handed to the parser: every length up to MaxDataLen, RSV and FRAG
\* bytes that are zero or not, the three address types and two unknown ones, and a
\* fifth byte (the length of a domain) around every length and at its maximum.
HeaderBytes == {0, 1}
Datagrams ==
    {[i \in 1..n |-> CASE i = 1 -> r0 [] i = 2 -> r1 [] i = 3 -> fr [] i = 4 -> at
                        [] i = 5 -> ln [] OTHER -> i] :
        n \in 0..MaxDataLen, r0 \in HeaderBytes, r1 \in HeaderBytes, fr \in HeaderBytes,
        at \in {0, 1, 3, 4, 5}, ln \in 0..MaxDataLen \cup {MaxByte}}

\* no relay runs: a pool without keys and no task
NoRelay ==
    /\ connections = <<>> /\ currentSize = 0 /\ maxSize = RelayMaxSize
    /\ creationLock = {} /\ conn = <<>> /\ now = 0 /\ evicted = {}
    /\ seq = 0 /\ toSend = 0 /\ rx = RxIdle
    /\ task = <<>> /\ rpc = <<>> /\ written = <<>> /\ lateReads = <<>>
    /\ poolLock = [w |-> Nobody, r |-> {}] /\ dnsLock = [w |-> Nobody, r |-> {}]
    /\ writeMutex = <<>> /\ dnsCache = NoEntry /\ jpc = "idle"

ParserInit ==
    /\ NoRelay
    /\ data \in Datagrams
    /\ parsed = NotParsed
    /\ request = NoRequest
    /\ ResponseIdle
    /\ AwgIdle

\* host, port, headerLen, ok := parseSocks5HeaderFast(buf[:n])
Parse ==
    /\ parsed = NotParsed
    /\ parsed' = parseSocks5HeaderFast(data)
    /\ UNCHANGED <<poolVars, now, machineVars, data, request, responseVars, awgVars>>

ParserNext == Parse

ParserSpec == ParserInit /\ [][ParserNext]_vars

\* ------------------------------------------------- the codec driven alone
\* The requests a client encodes: an IPv4 address, a domain name of 1..MaxDomainLen
\* bytes or an IPv6 address (one of them IPv4-mapped), a port, and a payload of
\* 0..MaxPayloadLen bytes.
Ports == {0, MaxByte, MaxByte + 1, MaxPort}
V4Addrs == {<<10, 0, 0, 1>>, <<MaxByte, 2, 3, 4>>}
V6Addrs == {<<32, 1, 13, 184, 0, 0, 0, 0, 0, 0, 0, 0, 0, 0, 0, 1>>,
            <<0, 0, 0, 0, 0, 0, 0, 0, 0, 0, MaxByte, MaxByte, 10, 0, 0, 1>>}
Hosts ==
    {<<"ip4", a>> : a \in V4Addrs} \cup {<<"ip6", a>> : a \in V6Addrs}
        \cup {<<"name", a>> : a \in UNION {[1..n -> {46, 97}] : n \in 1..MaxDomainLen}}
Payloads == UNION {[1..n -> {0, MaxByte}] : n \in 0..MaxPayloadLen}
Requests == [host : Hosts, port : Ports, payload : Payloads]

\* the request datagram of a client: RSV RSV FRAG ATYP DST.ADDR DST.PORT payload
encodeRequest(r) ==
    LET addr == r.host[2] IN
    (CASE r.host[1] = "ip4" -> <<0, 0, 0, 1>> \o addr
       [] r.host[1] = "name" -> <<0, 0, 0, 3, Len(addr)>> \o addr
       [] OTHER -> <<0, 0, 0, 4>> \o addr)
    \o <<r.port \div (MaxByte + 1), r.port % (MaxByte + 1)>> \o r.payload

CodecInit ==
    /\ NoRelay
    /\ request \in Requests
    /\ data = encodeRequest(request)
    /\ parsed = NotParsed
    /\ ResponseIdle
    /\ AwgIdle

CodecSpec == CodecInit /\ [][ParserNext]_vars

\* --------------------------------------------- the responses driven alone
\* The associations a creation task builds for a parsed host and port, with the
\* answers a lookup gives for a domain, and the bytes a reader reads from the tunnel.
Answers ==
    {<<a>> : a \in V4Addrs} \cup {<<a>> : a \in V6Addrs}
        \cup {<<a, b>> : a \in V6Addrs, b \in V4Addrs}

\* the hosts the parser returns for the requests of the clients
ParsedHosts == {parseSocks5HeaderFast(encodeRequest(r)).host : r \in Requests} \ {<<>>}

ResponseInit ==
    /\ NoRelay
    /\ ParserIdle
    /\ \E host \in ParsedHosts, port \in Ports, ips \in Answers : assoc = dialed(host, port, ips)
    /\ tunnel \in Payloads
    /\ sent = NotSent
    /\ AwgIdle

\* startUDPReader: sendUDPResponseFast(serverConn, udpConn.client, udpConn.resolvedIP,
\* udpConn.targetAddr.Port, buf[:n])
SendResponse ==
    /\ sent = NotSent
    /\ sent' = sendUDPResponseFast(assoc.resolvedIP, assoc.targetPort, tunnel)
    /\ UNCHANGED <<poolVars, now, machineVars, parserVars, assoc, tunnel, awgVars>>

ResponseNext == SendResponse

ResponseSpec == ResponseInit /\ [][ResponseNext]_vars

\* ------------------------------- the configuration compiler driven alone
\* The [Interface] sections handed to ParseASecConfig. A key the section has
\* carries a value, an integer for Jc..S4 and a string for H1..H4 and I1..I5; a
\* key it lacks does not.
JunkKeys == {"Jc", "Jmin", "Jmax"}
SizeKeys == {"S1", "S2", "S3", "S4"}

int(v) == [set |-> TRUE, value |-> v]
text(v) == [set |-> TRUE, value |-> v]
absent(k) == [set |-> FALSE, value |-> IF k \in Range(IntKeys) THEN 0 ELSE <<>>]
optional(k, values) == {absent(k)} \cup {[set |-> TRUE, value |-> v] : v \in values}

\* scalars and ranges that meet the defaults, each other or nothing
HeaderLiterals ==
    {<<"2">>, <<"1", "0">>, <<"5", "-", "5">>, <<"5", "0", "-", "1", "5", "0">>,
     <<"1", "0", "0", "-", "2", "0", "0">>, <<"2", "0", "0", "-", "3", "0", "0">>}

\* scalars and ranges over the whole of 32 bits
WideLiterals ==
    {<<"0">>, <<"5">>, <<"6", "5", "5", "3", "6">>,
     <<"4", "2", "9", "4", "9", "6", "7", "2", "9", "5">>,
     <<"0", "-", "1">>, <<"5", "-", "6">>, <<"7", "-", "7">>,
     <<"6", "5", "5", "3", "5", "-", "6", "5", "5", "3", "6">>,
     <<"5", "-", "4", "2", "9", "4", "9", "6", "7", "2", "9", "5">>}

\* values parseMagicHeaderInterval refuses
BadLiterals ==
    {<<>>, <<" ">>, <<"5", "-">>, <<"-", "5">>, <<"1", "-", "2", "-", "3">>,
     <<"3", "0", "0", "-", "2", "0", "0">>, <<"x">>, <<"5", "-", "x">>,
     <<"4", "2", "9", "4", "9", "6", "7", "2", "9", "6">>}

\* a section with every key, of values that pass together, zeros among them
FullSection ==
    [Jc |-> int(1), Jmin |-> int(0), Jmax |-> int(0),
     S1 |-> int(0), S2 |-> int(0), S3 |-> int(0), S4 |-> int(0),
     H1 |-> text(<<"5">>), H2 |-> text(<<"6">>), H3 |-> text(<<"0">>),
     H4 |-> text(<<"7", "-", "9">>),
     I1 |-> text(<<"a">>), I2 |-> text(<<>>), I3 |-> text(<<"a">>),
     I4 |-> text(<<"a">>), I5 |-> text(<<"a">>)]

\* the keys of FullSection that are kept
keep(keys) == [k \in Range(AwgKeys) |-> IF k \in keys THEN FullSection[k] ELSE absent(k)]

Sections ==
    \* every choice of S1..S4, at the ends of [0, 1280] and at every distance of
    \* two message sizes, and nothing else
    {s @@ keep({}) : s \in [SizeKeys -> optional("S1", {0, 28, 56, 84, 116, 1280})]}
    \* every choice of H1..H4 and nothing else
    \cup {h @@ keep({}) : h \in [Range(HeaderKeys) -> optional("H1", HeaderLiterals)]}
    \* one H key with a value of any kind
    \cup {[keep({}) EXCEPT ![k] = text(v)] :
            k \in Range(HeaderKeys), v \in WideLiterals \cup BadLiterals}
    \* junk fields inside and outside their ranges, with sizes that collide or not
    \* and a value of H1 that passes, meets a default or is refused
    \cup {[Jc |-> jc, Jmin |-> jmin, Jmax |-> jmax, H1 |-> h1] @@ s :
            jc \in optional("Jc", {0, 1, 128, 129, 200}),
            jmin \in optional("Jmin", {0, 1280, 1300}),
            jmax \in optional("Jmax", {0, 1280, 1281, 1290}),
            h1 \in optional("H1", {<<"2">>, <<"1", "0">>,
                                   <<"3", "0", "0", "-", "2", "0", "0">>, <<"5", "-">>}),
            s \in {keep({}), [keep({}) EXCEPT !["S1"] = int(0), !["S2"] = int(56)],
                   [keep({}) EXCEPT !["S1"] = int(0), !["S3"] = int(84)]}}
    \* every subset of the keys Jc..H4, and every subset of I1..I5 with all of
    \* Jc..H4 or none
    \cup {keep(keys) : keys \in SUBSET (Range(IntKeys) \cup Range(HeaderKeys))}
    \cup {keep(keys \cup rest) : keys \in SUBSET Range(TextKeys),
                                  rest \in {{}, Range(IntKeys) \cup Range(HeaderKeys)}}

AwgInit ==
    /\ NoRelay
    /\ ParserIdle
    /\ ResponseIdle
    /\ section \in Sections
    /\ loaded = NotLoaded
    /\ ipcRequest = NoIpcRequest
    /\ device = NoDevice

\* The rest of a configuration file: ListenPort absent or set, and up to MaxPeers
\* [Peer] sections. The first, third, ... peer has neither Endpoint nor AllowedIPs
\* or both (two prefixes); the second, fourth, ... has an Endpoint only or one
\* prefix only.
PeerChoices(n) ==
    LET noEndpoint == [nil |-> TRUE, s |-> <<>>]
        endpoint == [nil |-> FALSE, s |-> <<"192.0.2.1:51820">>]
    IN {[PublicKey |-> <<"pk", FormatUint(uint32(n))>>, KeepAlive |-> 25 * (n - 1),
         PreSharedKey |-> <<"psk">>, Endpoint |-> c[1], AllowedIPs |-> c[2]] :
           c \in IF n % 2 = 1
                 THEN {<<noEndpoint, <<>>>>,
                       <<endpoint, <<<<"10.0.0.0/8">>, <<"fd00::/8">>>>>>}
                 ELSE {<<endpoint, <<>>>>, <<noEndpoint, <<<<"10.0.0.0/8">>>>>>}}

Devices ==
    {[ListenPort |-> l, Peers |-> p] :
        l \in {[nil |-> TRUE, value |-> 0], [nil |-> FALSE, value |-> 51820]},
        p \in UNION {{q \in [1..n -> UNION {PeerChoices(m) : m \in 1..n}] :
                        \A m \in 1..n : q[m] \in PeerChoices(m)} : n \in 0..MaxPeers}}

\* aSecConfig, err := ParseASecConfig(section)
ParseSection ==
    /\ loaded = NotLoaded
    /\ loaded' = ParseASecConfig(section)
    /\ UNCHANGED <<poolVars, now, machineVars, parserVars, responseVars, section,
                   ipcRequest, device>>

\* StartWireguard: setting, err := CreateIPCRequest(conf), once the configuration
\* was read without an error
StartWireguard ==
    /\ loaded # NotLoaded
    /\ loaded.err = NoError
    /\ ipcRequest = NoIpcRequest
    /\ \E rest \in Devices :
         /\ device' = rest
         /\ ipcRequest' = CreateIPCRequest(DeviceConfig(loaded.config, rest))
    /\ UNCHANGED <<poolVars, now, machineVars, parserVars, responseVars, section,
                   loaded>>

AwgNext == ParseSection \/ StartWireguard

AwgSpec == AwgInit /\ [][AwgNext]_vars

\* ------------------------------------------------------------------ claims
\* C13: Resolve returns from the cache only when the entry is younger than the ttl;
\* with an entry of age ttl or more it goes to a lookup; a lookup that fails leaves
\* the cache as it is, and the result of a lookup is stored with the current time.
C13_DnsFreshness ==
    [][\A c \in DOMAIN task :
          /\ (task[c].pc = "dnsRead" /\ task'[c].pc = "dial") =>
                  dnsCache # NoEntry /\ now - dnsCache < DnsTtlSeconds
          /\ (task[c].pc = "dnsRead" /\ task'[c].pc # "dnsRead"
                 /\ dnsCache # NoEntry /\ now - dnsCache >= DnsTtlSeconds) =>
                  task'[c].pc = "lookup"
          /\ (task[c].pc = "lookup" /\ task'[c].pc = "release") => dnsCache' = dnsCache
          /\ (task[c].pc = "dnsStoring" /\ task'[c].pc = "dial") => dnsCache' = now]_vars

\* C13 witness: the entry is exactly ttl old and a call of Resolve that read it is
\* at its lookup.
C13_Witness ==
    /\ dnsCache # NoEntry /\ now - dnsCache = DnsTtlSeconds
    /\ \E c \in DOMAIN task : task[c].pc = "lookup"

\* C12: a response datagram starts with 00 00 00, carries ATYP 1, the four bytes of
\* the address dialed and a 10-byte header when that address is IPv4, and ATYP 4,
\* its sixteen bytes and a 22-byte header otherwise, then the port dialed, then
\* exactly the bytes read from the tunnel.
C12_ResponseLayout ==
    sent # NotSent =>
        LET h == assoc.dialed[1]
            n == IF h[1] = "ip4" THEN 10 ELSE 22
        IN  /\ Len(sent) = n + Len(tunnel)
            /\ SubSeq(sent, 1, 3) = <<0, 0, 0>>
            /\ sent[4] = (IF h[1] = "ip4" THEN 1 ELSE 4)
            /\ h[1] \in {"ip4", "ip6"} /\ SubSeq(sent, 5, n - 2) = h[2]
            /\ sent[n - 1] * (MaxByte + 1) + sent[n] = assoc.dialed[2]
            /\ SubSeq(sent, n + 1, Len(sent)) = tunnel

\* C12 witness: a response with bytes read from the tunnel has been sent for an
\* association that dialed an IPv6 address.
C12_Witness ==
    /\ sent # NotSent /\ tunnel # <<>>
    /\ assoc.dialed[1][1] = "ip6" /\ sent[4] = 4

\* the header length that a datagram of at least five bytes declares, 0 for an
\* unknown address type
DeclaredLen(d) ==
    CASE d[4] = 1 -> 4 + 4 + 2
      [] d[4] = 3 -> 4 + 1 + d[5] + 2
      [] d[4] = 4 -> 4 + 16 + 2
      [] OTHER -> 0

\* C10: the parser rejects every datagram whose declared header length exceeds the
\* buffer, whose RSV or FRAG bytes are not zero or whose ATYP is not 1, 3 or 4; for
\* an accepted datagram the header length is the declared one and at most the
\* length of the datagram; and no slice of the parser ends past the buffer.
C10_ParserBounds ==
    parsed # NotParsed =>
        /\ ~parsed.panic
        /\ Len(data) < 5 => ~parsed.ok
        /\ Len(data) >= 5 =>
              /\ (data[1] # 0 \/ data[2] # 0 \/ data[3] # 0) => ~parsed.ok
              /\ data[4] \notin {1, 3, 4} => ~parsed.ok
              /\ DeclaredLen(data) > Len(data) => ~parsed.ok
              /\ parsed.ok => /\ parsed.headerLen = DeclaredLen(data)
                              /\ parsed.headerLen <= Len(data)

\* C10 witness: a domain datagram that declares one byte more than the buffer holds
\* has been rejected.
C10_Witness ==
    /\ parsed # NotParsed /\ ~parsed.ok
    /\ Len(data) >= 10 /\ data[1] = 0 /\ data[2] = 0 /\ data[3] = 0 /\ data[4] = 3
    /\ 4 + 1 + data[5] + 2 = Len(data) + 1

\* C11: a request datagram encoded in the layout of the codec is accepted by the
\* parser, and the host, the port and the payload the handler takes from it are
\* those of the request.
C11_CodecRoundTrip ==
    (request # NoRequest /\ parsed # NotParsed) =>
        /\ parsed.ok
        /\ parsed.host = request.host
        /\ parsed.port = request.port
        /\ payloadOf(data, parsed) = request.payload

\* creation tasks that have registered their association with pool.Set
Registered == {c \in DOMAIN task : task[c].regSeq > 0}

\* C1: of the datagrams of one client that arrive before an association for its key
\* is registered, only one leads to a registered association: no creation task for
\* the key registers one for a datagram that arrived after the datagram of another
\* creation task for the key and before that task registered its association,
\* which is still open.
C1_OneCreationPerBurst ==
    \A c1 \in Registered : \A c2 \in Registered \ {c1} :
        task[c1].key = task[c2].key /\ ~conn[c1].closed =>
            ~(task[c1].seq < task[c2].seq /\ task[c2].seq <= task[c1].regSeq)

\* C2: currentSize equals the number of keys in the connections map.
C2_SizeIsCardinality == currentSize = Cardinality(PresentKeys(Pool))

\* a sequence of datagram numbers is in receive order
InReceiveOrder(w) == \A i \in 1..Len(w) : \A j \in 1..Len(w) : i < j => w[i] < w[j]

\* C4: the payloads written to a tunnel-side connection are written in the order in
\* which the receive loop received their datagrams.
C4_WrittenInReceiveOrder == \A c \in DOMAIN written : InReceiveOrder(written[c])

\* C3: once the connection of an association has been closed by its removal from the
\* pool, the reader task of the association terminates, and no more than one of its
\* reads returns after the removal.
C3_ReaderShutdown ==
    /\ [](\A c \in DOMAIN conn : lateReads[c] <= 1)
    /\ \A c \in 1..LiveConns : conn[c].closed ~> rpc[c] = "done"

\* C3 witness: the reader of a removed association was in a read at the removal,
\* the read has returned at its deadline and the reader has terminated.
C3_Witness ==
    \E c \in DOMAIN conn : conn[c].closed /\ rpc[c] = "done" /\ lateReads[c] = 1

\* creation tasks that ended, or are about to end, without a tunnel-side connection
Failed == {c \in DOMAIN task : task[c].pc \in {"release", "done"} /\ ~conn[c].made}

\* C8: a creation task whose resolution or dial fails registers no association and
\* writes no payload, its failing step leaves the pool map and currentSize as they
\* are, and when it returns the marker of its key is not in creationLock.
C8_FailedCreation ==
    /\ [](\A c \in Failed :
            /\ \A k \in DOMAIN connections : connections[k] # c
            /\ task[c].regSeq = 0 /\ written[c] = <<>>)
    /\ [][\A c \in DOMAIN task :
            /\ (task[c].pc \in {"lookup", "dial"} /\ task'[c].pc = "release") =>
                    connections' = connections /\ currentSize' = currentSize
            /\ (c \in Failed /\ task[c].pc = "release" /\ task'[c].pc = "done") =>
                    task[c].key \notin creationLock']_vars

\* C8 witness: a creation has failed and returned, and a later datagram of the same
\* client has started another creation task.
C8_Witness ==
    \E c1 \in Failed : \E c2 \in DOMAIN task \ {c1} :
        /\ task[c1].pc = "done" /\ task[c2].pc # "unused"
        /\ task[c2].key = task[c1].key /\ task[c2].seq > task[c1].seq

\* the tasks of the relay, the step each can take, and the locks each holds
Tasks == {RX, JAN} \cup {CR(c) : c \in DOMAIN task} \cup {RD(c) : c \in DOMAIN task}
StepOf(t) ==
    IF t = RX THEN RxStep
    ELSE IF t = JAN THEN JanStep
    ELSE IF t = CR(t[2]) THEN CrStep(t[2]) ELSE RdStep(t[2])
Holds(t) ==
    (IF poolLock.w = t \/ t \in poolLock.r THEN {<<"pool", 0>>} ELSE {})
    \cup (IF dnsLock.w = t \/ t \in dnsLock.r THEN {<<"dns", 0>>} ELSE {})
    \cup {<<"write", c>> : c \in {d \in DOMAIN writeMutex : writeMutex[d] = t}}

\* C9: no task holds more than one of the pool lock, the DNS cache lock and an
\* association write lock, and a task that holds one can take its next step.
C9_LockDiscipline ==
    \A t \in Tasks :
        /\ Cardinality(Holds(t)) <= 1
        /\ Holds(t) # {} => ENABLED StepOf(t)

\* C9 witness: the receive loop waits for the write lock of an association that its
\* creation task holds, while the pool lock is held by a third task.
C9_Witness ==
    \E c \in DOMAIN task :
        /\ writeMutex[c] = CR(c) /\ rx.pc = "write" /\ rx.conn = c
        /\ poolLock.w \notin {Nobody, RX, CR(c)}

\* C5: the number of associations held in the pool map never exceeds maxSize.
C5_MaxSizeEnforced == Cardinality(PresentKeys(Pool)) <= maxSize

\* C6: capacity eviction never evicts an association whose lastUsed is strictly
\* later than the lastUsed of an association that survives that eviction.
C6_NoFreshOverOld ==
    [][\A e \in evicted' : \A k \in PresentKeys(Pool) \ evicted' :
          lastUsedOf(Pool, e) <= lastUsedOf(Pool, k)]_vars

\* C7: the connection of every association stored in the pool map is not closed.
C7_PresentKeysLive ==
    \A k \in DOMAIN connections :
        connections[k] # NoConn =>
            conn[connections[k]].made /\ ~conn[connections[k]].closed

\* C7 witness: a capacity eviction has closed associations and others are stored.
C7_Witness == evicted # {} /\ PresentKeys(Pool) # {}

\* the sums 148+S1, 92+S2, 64+S3, 32+S4 of the set fields are pairwise distinct
SumsDistinct ==
    LET set == {k \in SizeKeys : section[k].set}
        sum == [S1 |-> 148 + section["S1"].value, S2 |-> 92 + section["S2"].value,
                S3 |-> 64 + section["S3"].value, S4 |-> 32 + section["S4"].value]
    IN \A k1, k2 \in set : k1 # k2 => sum[k1] # sum[k2]

\* C14: with no J and no H field set and every set S field in [0, 1280], the
\* configuration is accepted exactly when the sums 148+S1, 92+S2, 64+S3, 32+S4 of
\* the set fields are pairwise distinct.
C14_PacketSizeEquation ==
    (/\ loaded # NotLoaded
     /\ \A k \in JunkKeys \cup Range(HeaderKeys) : ~section[k].set
     /\ \A k \in SizeKeys : section[k].set => section[k].value \in 0..1280)
    => (loaded.err = NoError <=> SumsDistinct)

\* S3 and S4 alone, with 64+S3 = 32+S4, were refused
C14_Witness ==
    /\ loaded # NotLoaded
    /\ {k \in Range(AwgKeys) : section[k].set} = {"S3", "S4"}
    /\ 64 + section["S3"].value = 32 + section["S4"].value
    /\ loaded.err # NoError

\* Jc is unset or in 1..128, Jmin and Jmax are not both set or Jmin <= Jmax, and
\* Jmax is unset or at most 1280
JcInRange == section["Jc"].set => (1 <= section["Jc"].value /\ section["Jc"].value <= 128)
JminBelowJmax ==
    (section["Jmin"].set /\ section["Jmax"].set) => section["Jmin"].value <= section["Jmax"].value
JmaxInRange == section["Jmax"].set => section["Jmax"].value <= 1280

\* every set H field holds a scalar N or a range N-M with N <= M
HeadersParse ==
    \A k \in Range(HeaderKeys) :
        section[k].set => parseMagicHeaderInterval(section[k].value).err = NoError

\* the effective interval of H1..H4: the one of the section if the key is set,
\* the scalar default 1, 2, 3, 4 otherwise
effectiveInterval(n) ==
    IF section[HeaderKeys[n]].set
    THEN LET p == parseMagicHeaderInterval(section[HeaderKeys[n]].value)
         IN [min |-> p.min, max |-> p.max]
    ELSE [min |-> uint32(n), max |-> uint32(n)]

\* two of the four effective intervals overlap inclusively
EffectiveOverlap ==
    \E a, b \in 1..4 :
        /\ a # b
        /\ lessEq(effectiveInterval(a).min, effectiveInterval(b).max)
        /\ lessEq(effectiveInterval(b).min, effectiveInterval(a).max)

\* the H fields of the section are exactly these
headersAre(h) ==
    \A k \in Range(HeaderKeys) :
        IF k \in DOMAIN h THEN section[k] = text(h[k]) ELSE ~section[k].set

\* C15: with J and S fields that pass, the configuration is refused with "values
\* of the H1-H4 fields must be unique" exactly when two of the four effective
\* intervals overlap inclusively, defaults included; H1=2 alone, H1=10 with H2=10
\* and H1=100-200 with H2=200-300 are refused.
C15_HeaderUniqueness ==
    (loaded # NotLoaded /\ JcInRange /\ JminBelowJmax /\ JmaxInRange /\ SumsDistinct
        /\ HeadersParse)
    => /\ loaded.err = Err.HeaderUnique <=> EffectiveOverlap
       /\ headersAre([H1 |-> <<"2">>]) => loaded.err = Err.HeaderUnique
       /\ headersAre([H1 |-> <<"1", "0">>, H2 |-> <<"1", "0">>])
            => loaded.err = Err.HeaderUnique
       /\ headersAre([H1 |-> <<"1", "0", "0", "-", "2", "0", "0">>,
                      H2 |-> <<"2", "0", "0", "-", "3", "0", "0">>])
            => loaded.err = Err.HeaderUnique

\* H1=2 alone was refused for meeting the default of H2
C15_Witness ==
    /\ loaded # NotLoaded
    /\ {k \in Range(AwgKeys) : section[k].set} = {"H1"}
    /\ section["H1"].value = <<"2">>
    /\ loaded.err = Err.HeaderUnique

\* the section with the values of two keys exchanged
exchanged(k1, k2) == [section EXCEPT ![k1] = section[k2], ![k2] = section[k1]]

\* C16: the overlap test of two intervals gives the same result in either order
\* of its arguments, and exchanging the values of two set H fields does not change
\* whether the configuration is accepted.
C16_OverlapSymmetric ==
    loaded # NotLoaded =>
        /\ HeadersParse =>
              \A a, b \in 1..4 :
                  overlap(effectiveInterval(a), effectiveInterval(b))
                      = overlap(effectiveInterval(b), effectiveInterval(a))
        /\ \A k1, k2 \in Range(HeaderKeys) :
              (section[k1].set /\ section[k2].set) =>
                  ((ParseASecConfig(exchanged(k1, k2)).err = NoError)
                      <=> (loaded.err = NoError))

\* H1=100-200 with H2=50-150, where each interval holds the lower bound of one
\* and not of the other, was refused
C16_Witness ==
    /\ loaded # NotLoaded
    /\ headersAre([H1 |-> <<"1", "0", "0", "-", "2", "0", "0">>,
                   H2 |-> <<"5", "0", "-", "1", "5", "0">>])
    /\ loaded.err = Err.HeaderUnique

\* the values of the lines of the IPC request with this key
valuesOf(key) == {ipcRequest[n].value : n \in {m \in 1..Len(ipcRequest) : ipcRequest[m].key = key}}

\* the literal is a range N-M
isRange(literal) == \E n \in 1..Len(literal) : literal[n] = "-"

\* C17 as stated: every scalar N and every range N-M with N <= M, N = M included,
\* that is parsed and then emitted comes out as the same literal.
C17_HeaderRoundTrip ==
    ipcRequest # NoIpcRequest =>
        \A n \in 1..4 :
            section[HeaderKeys[n]].set =>
                valuesOf(IpcKeys[Len(IntKeys) + n]) = {section[HeaderKeys[n]].value}

\* C17: every scalar N and every range N-M with N < M that is parsed and then
\* emitted comes out as the same literal, and a range N-N comes out as the scalar N.
C17_HeaderRoundTripProper ==
    ipcRequest # NoIpcRequest =>
        \A n \in 1..4 :
            LET literal == section[HeaderKeys[n]].value
                bounds == Split(literal)
            IN section[HeaderKeys[n]].set =>
                  valuesOf(IpcKeys[Len(IntKeys) + n])
                      = IF isRange(literal) /\ bounds[1] = bounds[2]
                        THEN {bounds[1]} ELSE {literal}

\* the range from 5 to the largest 32-bit value was emitted as it was written
C17_Witness ==
    /\ ipcRequest # NoIpcRequest
    /\ section["H1"] = text(<<"5", "-", "4", "2", "9", "4", "9", "6", "7", "2", "9", "5">>)
    /\ valuesOf("h1") = {section["H1"].value}

\* the field of this key is set in the configuration ParseASecConfig returned
setInConfig(k) ==
    /\ ~loaded.config.nil
    /\ IF k \in Range(TextKeys) THEN ~loaded.config.i[k].nil ELSE loaded.config.has[k]

\* C18: the IPC request holds a line for each of the 16 AmneziaWG keys exactly
\* when the field is set in the configuration; a set field of value zero is
\* emitted, and a configuration without an AmneziaWG record emits none of them.
C18_IpcGating ==
    ipcRequest # NoIpcRequest =>
        /\ \A n \in 1..Len(AwgKeys) :
              /\ section[AwgKeys[n]].set <=> setInConfig(AwgKeys[n])
              /\ valuesOf(IpcKeys[n]) # {} <=> setInConfig(AwgKeys[n])
              /\ (AwgKeys[n] \in Range(IntKeys) /\ section[AwgKeys[n]] = int(0))
                    => valuesOf(IpcKeys[n]) = {<<"0">>}
        /\ loaded.config.nil => \A n \in 1..Len(AwgKeys) : valuesOf(IpcKeys[n]) = {}

\* S1 = 0 and I2 were emitted, the one as a zero and the other as an empty
\* string, and I1, which the section lacks, was not
C18_Witness ==
    /\ ipcRequest # NoIpcRequest
    /\ section["S1"] = int(0) /\ valuesOf("s1") = {<<"0">>}
    /\ section["I2"].set /\ valuesOf("i2") = {<<>>}
    /\ ~section["I1"].set /\ valuesOf("i1") = {}

\* C20: with S and H fields that pass, the configuration is accepted exactly when
\* Jc is unset or in 1..128, Jmin and Jmax are not both set or Jmin <= Jmax, and
\* Jmax is unset or at most 1280; a violation is reported by the message of its
\* field.
C20_JunkRanges ==
    (loaded # NotLoaded /\ SumsDistinct /\ HeadersParse /\ ~EffectiveOverlap) =>
        /\ loaded.err = NoError <=> (JcInRange /\ JminBelowJmax /\ JmaxInRange)
        /\ loaded.err \in {NoError, Err.Jc, Err.Jmin, Err.Jmax}
        /\ loaded.err = Err.Jc => ~JcInRange
        /\ loaded.err = Err.Jmin => ~JminBelowJmax
        /\ loaded.err = Err.Jmax => ~JmaxInRange
        /\ (~JcInRange /\ JminBelowJmax /\ JmaxInRange) => loaded.err = Err.Jc
        /\ (JcInRange /\ ~JminBelowJmax /\ JmaxInRange) => loaded.err = Err.Jmin
        /\ (JcInRange /\ JminBelowJmax /\ ~JmaxInRange) => loaded.err = Err.Jmax

\* Jc = 0 alone was refused with the message of Jc
C20_Witness ==
    /\ loaded # NotLoaded
    /\ {k \in Range(AwgKeys) : section[k].set} = {"Jc"}
    /\ section["Jc"].value = 0
    /\ loaded.err = Err.Jc

\* every set H field holds a scalar or a range of 32-bit values, in whatever
\* order the bounds of a range are
HeadersWellFormed ==
    \A k \in Range(HeaderKeys) :
        section[k].set =>
            parseMagicHeaderInterval(section[k].value).err \in {NoError, Err.HeaderBound}

\* a set H field holds a range whose lower bound exceeds the upper one
BoundExceeded ==
    \E k \in Range(HeaderKeys) :
        section[k].set /\ parseMagicHeaderInterval(section[k].value).err = Err.HeaderBound

\* the errors of the first violated invariant among Jc range, Jmin > Jmax,
\* Jmax > 1280, packet-size collision and the last one, given by its violation
\* and its errors
firstViolated(lastViolated, lastErrors) ==
    IF ~JcInRange THEN {Err.Jc}
    ELSE IF ~JminBelowJmax THEN {Err.Jmin}
    ELSE IF ~JmaxInRange THEN {Err.Jmax}
    ELSE IF ~SumsDistinct THEN {Err.SizesLong, Err.SizesShort}
    ELSE IF lastViolated THEN lastErrors
    ELSE {NoError}

\* C19 as stated: the error is that of the first violated invariant in the order
\* Jc range, Jmin > Jmax, Jmax > 1280, packet-size collision, H-interval bound or
\* overlap.
C19_FirstFailureWins ==
    (loaded # NotLoaded /\ HeadersWellFormed) =>
        loaded.err \in firstViolated(BoundExceeded \/ EffectiveOverlap,
                                     {Err.HeaderBound, Err.HeaderUnique})

\* C19: an H field whose lower bound exceeds the upper one is reported first, when
\* its value is parsed; otherwise the error is that of the first violated invariant
\* in the order Jc range, Jmin > Jmax, Jmax > 1280, packet-size collision,
\* H-interval overlap. Jmin=1300 with Jmax=1290 reports the message of Jmin and
\* Jc=200 with H1=2 the message of Jc.
C19_FirstFailureWinsAfterParsing ==
    (loaded # NotLoaded /\ HeadersWellFormed) =>
        /\ IF BoundExceeded THEN loaded.err = Err.HeaderBound
           ELSE loaded.err \in firstViolated(EffectiveOverlap, {Err.HeaderUnique})
        /\ ({k \in Range(AwgKeys) : section[k].set} = {"Jmin", "Jmax"}
              /\ section["Jmin"].value = 1300 /\ section["Jmax"].value = 1290)
             => loaded.err = Err.Jmin
        /\ ({k \in Range(AwgKeys) : section[k].set} = {"Jc", "H1"}
              /\ section["Jc"].value = 200 /\ section["H1"].value = <<"2">>)
             => loaded.err = Err.Jc

\* a section that violates all five invariants was refused with the message of Jc
C19_Witness ==
    /\ loaded # NotLoaded
    /\ ~JcInRange /\ ~JminBelowJmax /\ ~JmaxInRange /\ ~SumsDistinct
    /\ HeadersParse /\ EffectiveOverlap
    /\ loaded.err = Err.Jc

\* C21: when the junk fields are in range, every set H field parses and two
\* sums of set S fields are equal, the error is the short text (S1 and S2 only)
\* exactly when neither S3 nor S4 is set and the long text (S1 to S4) exactly when
\* at least one of them is set, whichever pair of sums is equal.
C21_CollisionMessageForm ==
    (loaded # NotLoaded /\ JcInRange /\ JminBelowJmax /\ JmaxInRange /\ HeadersParse
        /\ ~SumsDistinct) =>
        /\ loaded.err \in {Err.SizesShort, Err.SizesLong}
        /\ loaded.err = Err.SizesShort <=> (~section["S3"].set /\ ~section["S4"].set)
        /\ loaded.err = Err.SizesLong <=> (section["S3"].set \/ section["S4"].set)

\* 148+S1 = 92+S2 is the only equality and S3 is set: the long text was returned
C21_Witness ==
    /\ loaded # NotLoaded
    /\ {k \in Range(AwgKeys) : section[k].set} = {"S1", "S2", "S3"}
    /\ 148 + section["S1"].value = 92 + section["S2"].value
    /\ 64 + section["S3"].value # 148 + section["S1"].value
    /\ loaded.err = Err.SizesLong

\* the keys before the first peer, in the order the text must list them
HeadOrder == <<"private_key", "listen_port">> \o IpcKeys

\* the lines of the IPC request that open a peer, and the lines of the n-th peer
peerStarts == {n \in 1..Len(ipcRequest) : ipcRequest[n].key = "public_key"}
peerBlock(n) ==
    LET start == CHOOSE i \in peerStarts : Cardinality({j \in peerStarts : j < i}) = n - 1
        later == {j \in peerStarts : j > start}
    IN SubSeq(ipcRequest, start, IF later = {} THEN Len(ipcRequest) ELSE Min(later) - 1)

\* the values of the allowed_ip lines a peer must have
allowedOf(peer) ==
    IF peer.AllowedIPs = <<>> THEN <<<<"0.0.0.0/0">>, <<"::0/0">>>> ELSE peer.AllowedIPs

\* C22: the IPC request opens with private_key, then listen_port if the port is set,
\* then the AmneziaWG keys in the order jc, jmin, jmax, s1..s4, h1..h4, i1..i5; then
\* follows one block per peer in configuration order: public_key,
\* persistent_keepalive_interval, preshared_key, endpoint if set, and one allowed_ip
\* per configured prefix or the defaults 0.0.0.0/0 and ::0/0 when there is none.
C22_EmissionOrder ==
    ipcRequest # NoIpcRequest =>
        LET headLen == IF peerStarts = {} THEN Len(ipcRequest) ELSE Min(peerStarts) - 1
            rank(n) == CHOOSE r \in 1..Len(HeadOrder) : HeadOrder[r] = ipcRequest[n].key
        IN /\ headLen >= 1
           /\ ipcRequest[1] = [key |-> "private_key", value |-> <<"key">>]
           /\ \A n \in 1..headLen : ipcRequest[n].key \in Range(HeadOrder)
           /\ \A m, n \in 1..headLen : m < n => rank(m) < rank(n)
           /\ (\E n \in 1..headLen : ipcRequest[n].key = "listen_port")
                <=> ~device.ListenPort.nil
           /\ ~device.ListenPort.nil =>
                ipcRequest[2] = [key |-> "listen_port",
                                 value |-> formatInt(device.ListenPort.value)]
           /\ Cardinality(peerStarts) = Len(device.Peers)
           /\ \A n \in 1..Len(device.Peers) :
                LET peer == device.Peers[n]
                    block == peerBlock(n)
                    fixed == IF peer.Endpoint.nil THEN 3 ELSE 4
                IN /\ Len(block) = fixed + Len(allowedOf(peer))
                   /\ block[1] = [key |-> "public_key", value |-> peer.PublicKey]
                   /\ block[2] = [key |-> "persistent_keepalive_interval",
                                  value |-> formatInt(peer.KeepAlive)]
                   /\ block[3] = [key |-> "preshared_key", value |-> peer.PreSharedKey]
                   /\ ~peer.Endpoint.nil =>
                        block[4] = [key |-> "endpoint", value |-> peer.Endpoint.s]
                   /\ \A i \in 1..Len(allowedOf(peer)) :
                        block[fixed + i] = [key |-> "allowed_ip", value |-> allowedOf(peer)[i]]

\* a request with a listen port, AmneziaWG lines, a first peer with an endpoint and
\* two prefixes and a second peer with one prefix and no endpoint
C22_Witness ==
    /\ ipcRequest # NoIpcRequest
    /\ ~device.ListenPort.nil
    /\ Len(device.Peers) = 2
    /\ ~device.Peers[1].Endpoint.nil /\ Len(device.Peers[1].AllowedIPs) = 2
    /\ device.Peers[2].Endpoint.nil /\ Len(device.Peers[2].AllowedIPs) = 1
    /\ \E k \in Range(IpcKeys) : valuesOf(k) # {}
    /\ ipcRequest[Len(ipcRequest)].key = "allowed_ip"

\* the associations of the pool that are older than maxAge at time t
staleKeys(maxAge) == {k \in PresentKeys(Pool) : now - lastUsedOf(Pool, k) > maxAge}

\* C23: when the janitor's Cleanup(60 s) returns, no association with
\* now - lastUsed > 60 is left in the map, every association with
\* now - lastUsed <= 60 is still there with its object unchanged and not closed,
\* every removed association holds a shutdown signal and is closed, and currentSize
\* is smaller by the number of associations removed.
C23_CleanupExact ==
    [][(jpc = "cleanup" /\ jpc' = "idle") =>
         LET stale == staleKeys(MaxAgeSeconds) IN
         /\ \A k \in stale :
               /\ connections'[k] = NoConn
               /\ conn'[connections[k]].closed
               /\ conn'[connections[k]].readerDone >= 1
         /\ \A k \in PresentKeys(Pool) \ stale :
               /\ connections'[k] = connections[k]
               /\ conn'[connections[k]] = conn[connections[k]]
               /\ ~conn'[connections[k]].closed
         /\ \A k \in DOMAIN connections \ PresentKeys(Pool) : connections'[k] = NoConn
         /\ currentSize' = currentSize - Cardinality(stale)]_vars

\* Cleanup has returned: an association of age 90 s is closed and gone, one that
\* was last used exactly 60 s ago is still in the map
C23_Witness ==
    /\ jpc = "idle"
    /\ \E k \in DOMAIN connections :
          connections[k] = NoConn /\ conn[k].closed /\ now - conn[k].lastUsed > MaxAgeSeconds
    /\ \E k \in PresentKeys(Pool) :
          now - lastUsedOf(Pool, k) = MaxAgeSeconds /\ ~conn[connections[k]].closed

\* C24: when a reader's pool.Delete(k) returns and k was in the map, the object
\* stored under k is closed and holds a shutdown signal (one more than before, or
\* the one it already held), k has left the map and the in-creation set,
\* currentSize is one less and every other object and entry is as before; when k
\* was not in the map, nothing but the in-creation set has changed.
C24_DeleteFrame ==
    [][\A c \in DOMAIN task : (rpc[c] = "deleting" /\ rpc'[c] = "done") =>
         LET k == task[c].key
             o == connections[k]
         IN /\ creationLock' = creationLock \ {k}
            /\ IF o # NoConn
               THEN /\ conn'[o].closed
                    /\ conn'[o].readerDone = Min({conn[o].readerDone + 1, ReaderDoneCap})
                    /\ conn'[o].lastUsed = conn[o].lastUsed
                    /\ connections' = [connections EXCEPT ![k] = NoConn]
                    /\ currentSize' = currentSize - 1
                    /\ \A o2 \in DOMAIN conn \ {o} : conn'[o2] = conn[o2]
               ELSE /\ connections' = connections
                    /\ conn' = conn
                    /\ currentSize' = currentSize]_vars

\* a reader has deleted its association, which is closed and holds the signal no
\* reader will take, while the association of the other client is stored and open
C24_Witness ==
    \E c \in DOMAIN task :
        /\ rpc[c] = "done" /\ conn[c].closed /\ conn[c].readerDone = ReaderDoneCap
        /\ connections[task[c].key] = NoConn
        /\ \E k \in DOMAIN connections \ {task[c].key} :
              connections[k] # NoConn /\ ~conn[connections[k]].closed

\* C29: the keys a call of Set evicts for capacity are min(5, number of keys in the
\* map) distinct keys of the map, and one of them holds a lastUsed that is the
\* minimum over the map, whatever the iteration order of the map was.
C29_EvictsAnOldest ==
    [][evicted' # {} =>
         /\ currentSize >= maxSize /\ currentSize > EvictCount
         /\ evicted' \subseteq PresentKeys(Pool)
         /\ Cardinality(evicted') = Min({EvictCount, Cardinality(PresentKeys(Pool))})
         /\ \E e \in evicted' :
               \A k \in PresentKeys(Pool) : lastUsedOf(Pool, e) <= lastUsedOf(Pool, k)]_vars

\* five associations were evicted from a map of more than five, and an older
\* instant than that of the call is among the survivors' lastUsed
C29_Witness ==
    /\ Cardinality(evicted) = EvictCount
    /\ \E k \in PresentKeys(Pool) \ evicted : lastUsedOf(Pool, k) < now

\* the creation tasks that are running for key k
creating(k) == {c \in DOMAIN task : task[c].key = k /\ task[c].pc \notin {"unused", "done"}}

\* C25: when the pool.Delete of a reader that met a read error returns, no
\* association but the reader's own has been closed or taken out of the map, and
\* the in-creation marker of the key is still set if a creation task is running
\* for the key.
C25_ReaderDeletesOwn ==
    [][\A c \in DOMAIN task : (rpc[c] = "deleting" /\ rpc'[c] = "done") =>
         LET k == task[c].key IN
         /\ \A o \in DOMAIN conn \ {c} : conn'[o] = conn[o]
         /\ connections[k] \notin {NoConn, c} => connections'[k] = connections[k]
         /\ (k \in creationLock /\ creating(k) # {}) => k \in creationLock']_vars

\* C26: the payload a creation task writes to the connection it has dialed holds
\* the bytes of the datagram that started the task.
C26_InitialPayloadIntact ==
    [][\A c \in DOMAIN task :
         (task[c].pc = "writing" /\ task'[c].pc = "release" /\ ~conn[c].closed) =>
            written'[c] = Append(written[c], task[c].seq)]_vars

\* C27: every association that Set has registered and that is not the value
\* stored under its key is closed, and its reader was sent the shutdown signal (the
\* signal is pending, or the reader has ended).
C27_NoLeakedAssociation ==
    \A c \in Registered :
        connections[task[c].key] # c =>
            conn[c].closed /\ (conn[c].readerDone > 0 \/ rpc[c] = "done")

\* C28: a payload the receive loop writes to the connection of an association it
\* found in the pool goes to a connection that was dialed for the target named in
\* the header of the datagram that carried the payload. (The payload a creation task
\* writes goes to the connection the task dialed for the target it was handed.)
C28_TargetFidelity ==
    [][(rx.pc = "writing" /\ written'[rx.conn] # written[rx.conn]) =>
          task[rx.conn].target = rx.target]_vars

\* C30: a key is in creationLock only while a creation task is running for it;
\* every creation task that has started returns, and when it returns its key is not
\* in creationLock.
C30_NoStaleMarker ==
    /\ [](\A k \in creationLock : creating(k) # {})
    /\ [][\A c \in DOMAIN task :
            (task[c].pc # "done" /\ task'[c].pc = "done") =>
                task[c].key \notin creationLock']_vars
    /\ \A c \in 1..LiveConns : (task[c].pc \notin {"unused", "done"}) ~> (task[c].pc = "done")

\* a creation that failed and one that registered its association have both returned,
\* for the same key, and the key is free for the next datagram
C30_Witness ==
    \E c1, c2 \in DOMAIN task :
        /\ task[c1].pc = "done" /\ ~conn[c1].made
        /\ task[c2].pc = "done" /\ task[c2].regSeq > 0
        /\ task[c1].key = task[c2].key
        /\ creationLock = {}

\* C31: every interval (min, max) that CreateIPCRequest emits for a set H field
\* is written as the bare number min when min = max and as min-max otherwise, and
\* parseMagicHeaderInterval accepts that text and returns (min, max).
C31_EmitThenParse ==
    ipcRequest # NoIpcRequest =>
        \A n \in 1..Len(HeaderKeys) :
            LET k == HeaderKeys[n]
                minValue == loaded.config.min[k]
                maxValue == loaded.config.max[k]
            IN setInConfig(k) =>
                /\ lessEq(minValue, maxValue)
                /\ \E emitted \in valuesOf(IpcKeys[Len(IntKeys) + n]) :
                      /\ valuesOf(IpcKeys[Len(IntKeys) + n]) = {emitted}
                      /\ isRange(emitted) <=> minValue # maxValue
                      /\ Split(emitted) = IF minValue = maxValue
                                          THEN <<FormatUint(minValue)>>
                                          ELSE <<FormatUint(minValue), FormatUint(maxValue)>>
                      /\ parseMagicHeaderInterval(emitted)
                            = [min |-> minValue, max |-> maxValue, err |-> NoError]

\* the interval from 65535 to 65536, whose bounds lie on either side of the 16th
\* bit, was emitted as a range, and the scalar interval (7, 7) as 7
C31_Witness ==
    /\ ipcRequest # NoIpcRequest
    /\ \E k \in Range(HeaderKeys) :
          /\ setInConfig(k)
          /\ \/ loaded.config.min[k] = uint32(65535) /\ loaded.config.max[k] = uint32(65536)
             \/ loaded.config.min[k] = uint32(7) /\ loaded.config.max[k] = uint32(7)
    /\ \E n \in 1..Len(HeaderKeys) :
          valuesOf(IpcKeys[Len(IntKeys) + n])
              \in {{<<"6", "5", "5", "3", "5", "-", "6", "5", "5", "3", "6">>}, {<<"7">>}}

====
